---- MODULE Spec2Model ----
(***************************************************************************)
(* Verification model of the goodoo application server core:               *)
(*   - database/pool.go      ConnectionPool, Connection                    *)
(*   - http/session.go       Session, FilesystemSessionStore               *)
(*   - logging               Logger, LoggerLevels                          *)
(*   - api/registry          APIRegistry, MethodBuilder, ExecuteCall       *)
(* Each subsystem has its own specification (SpecPool, SpecSession,        *)
(* SpecLog, SpecApi); the variables of the other subsystems stay at their  *)
(* initial values.                                                         *)
(***************************************************************************)
EXTENDS Integers, Sequences, FiniteSets, TLC

VARIABLES
    \* ---- database: ConnectionPool ----
    maxConns,      \* ConnectionPool.maxConns
    connections,   \* ConnectionPool.connections: key -> pooledConnection
    opened,        \* number of *gorm.DB handles opened so far (handle ids 1..opened)
    closedDB,      \* handles on which the pool has called sqlDB.Close()
    conns,         \* the Connection wrappers Borrow has returned, in order
    now,           \* time.Now(), in minutes
    calls,         \* number of Borrow calls made so far
    last,          \* what the last Borrow call returned
    \* ---- http: Session, FilesystemSessionStore ----
    sess,          \* the Session the request is bound to
    files,         \* the store's directory: session id -> file content
    wall,          \* time.Now() as the session layer reads it, in hours
    sops,          \* number of session and store operations so far
    sop,           \* the last session operation and its arguments
    base,          \* the session as persisted when is_dirty was last reset
    \* ---- api: APIRegistry, MethodBuilder ----
    methods,       \* the APIMethod objects allocated so far
    registry,      \* APIRegistry.methods: model name -> method name -> APIMethod
    privApplied,   \* the methods Private() was called on
    committed,     \* the methods Register() was called on, each as Register() returned it
    invoked,       \* how many times a handler has been called
    apiOps,        \* number of registry operations so far
    resp,          \* the last APIResponse, with the call it answers
    \* ---- logging: the logger registry ----
    loggers,       \* the registry: logger name -> Logger
    loggerObjs,    \* the Logger objects allocated so far
    levelMaps,     \* the LoggerLevels maps allocated so far
    rootLogger,    \* the root Logger, 0 while it is nil
    initialized,   \* InitLogger has run
    logOps,        \* number of logging operations so far
    lastlog,       \* the last call of Logger.log and the handlers it handed a record to
    \* ---- http: a request on its way through the middleware ----
    req,           \* the request in progress: where it is, its cookie, its response
    \* ---- http: a Save running beside the goroutine that owns the session ----
    saving,        \* where the Save is, and what it has marshalled
    \* ---- http: the FilesystemSessionStore ----
    renewMissing,  \* fs.renewMissing, as NewFilesystemSessionStore was given it
    \* ---- logging: one PerfContext shared by goroutines ----
    perf,          \* the counter, its mutex, and where each goroutine is
    \* ---- database: DatabaseRegistry ----
    databases,     \* r.databases: name -> the DatabaseInfo registered under it
    dbInfos,       \* the DatabaseInfo objects allocated so far
    regOps,        \* number of registry operations so far
    dbop,          \* the last registry operation and what it returned
    \* ---- database: goroutines calling the registry and the pool ----
    thr,           \* each goroutine: the call it is in and where
    locks,         \* the mutexes held or waited for: lock, goroutine, mode
    concOps,       \* number of calls the goroutines have started
    gone           \* whether an Unregister has returned, and what came after

poolVars == <<maxConns, connections, opened, closedDB, conns, now, calls, last>>

sessVars == <<sess, files, wall, sops, sop, base>>

apiVars == <<methods, registry, privApplied, committed, invoked, apiOps, resp>>

vars == <<maxConns, connections, opened, closedDB, conns, now, calls, last,
          sess, files, wall, sops, sop, base,
          methods, registry, privApplied, committed, invoked, apiOps, resp,
          loggers, loggerObjs, levelMaps, rootLogger, initialized, logOps, lastlog,
          req, saving, renewMissing, perf,
          databases, dbInfos, regOps, dbop,
          thr, locks, concOps, gone>>

reqVars == <<req>>

saveVars == <<saving>>

storeVars == <<renewMissing>>

perfVars == <<perf>>

regVars == <<databases, dbInfos, regOps, dbop>>

concVars == <<thr, locks, concOps, gone>>

logVars == <<loggers, loggerObjs, levelMaps, rootLogger, initialized, logOps, lastlog>>

\* what the operations of one subsystem leave alone: the other subsystems
nonPoolVars == <<sessVars, apiVars, logVars, reqVars, saveVars, storeVars, perfVars, regVars, concVars>>
nonSessVars == <<poolVars, apiVars, logVars, reqVars, saveVars, storeVars, perfVars, regVars, concVars>>
nonApiVars == <<poolVars, sessVars, logVars, reqVars, saveVars, storeVars, perfVars, regVars, concVars>>
nonLogVars == <<poolVars, sessVars, apiVars, reqVars, saveVars, storeVars, perfVars, regVars, concVars>>
\* a request works on the session and the store, and calls the registry
nonReqVars == <<poolVars, logVars, saveVars, storeVars, perfVars, regVars, concVars>>
\* a Save works on the session and the store
nonSaveVars == <<poolVars, apiVars, logVars, reqVars, storeVars, perfVars, regVars, concVars>>
nonPerfVars == <<poolVars, sessVars, apiVars, logVars, reqVars, saveVars, storeVars, regVars, concVars>>

(***************************************************************************)
(* Bounds of the model.                                                    *)
(***************************************************************************)
MaxCap == 2          \* largest cap handed to NewConnectionPool
MaxCalls == 3        \* Borrow calls per behaviour
MaxNow == 45         \* the clock stops here
TickMinutes == 15    \* the clock advances in steps of this many minutes
MaxSessOps == 3      \* session and store operations per behaviour
MaxWall == 26        \* the session layer's clock stops here
TickHours == 13      \* the session layer's clock advances in steps of this many hours
MaxRequests == 2     \* requests per behaviour
MaxMethods == 2      \* APIMethod objects per behaviour
MaxLoggers == 2      \* Logger objects per behaviour, the root logger not counted
MaxLogOps == 4       \* logging operations per behaviour
MaxApiOps == 4       \* registry operations (builder calls and dispatches) per behaviour
MaxQueries == 3      \* AddQuery calls per behaviour
MaxRegOps == 4       \* DatabaseRegistry calls per behaviour
MaxRegNow == 15      \* the clock beside the registry stops here
MaxConcOps == 2      \* calls started by the concurrent goroutines per behaviour

(***************************************************************************)
(* Program constants.                                                      *)
(***************************************************************************)
SessionMaxAgeHours == 24
DefaultMaxConns == 64    \* NewConnectionPool: maxConns <= 0
IdleMinutes == 30        \* cleanupUnusedConnections: cutoff

(***************************************************************************)
(* database: ConnectionConfig                                              *)
(***************************************************************************)
CfgA == [DSN |-> "", Host |-> "h1", Port |-> 5432, Database |-> "db1", User |-> "u", Password |-> "p1"]
\* same host, port, database and user as CfgA: the same connection key
CfgA2 == [DSN |-> "", Host |-> "h1", Port |-> 5432, Database |-> "db1", User |-> "u", Password |-> "p2"]
CfgDSN == [DSN |-> "postgres://u@h2/db3", Host |-> "", Port |-> 0, Database |-> "db3", User |-> "", Password |-> ""]
\* no database name: Validate rejects it
CfgBad == [DSN |-> "", Host |-> "h1", Port |-> 5432, Database |-> "", User |-> "u", Password |-> "p1"]

Configs == {CfgA, CfgA2, CfgDSN, CfgBad}

\* ConnectionConfig.Validate: "ok" or the error
Validate(c) ==
    IF c.Database = "" THEN "database name is required"
    ELSE IF c.Host = "" /\ c.DSN = "" THEN "host is required when DSN is not provided"
    ELSE IF c.Port <= 0 /\ c.DSN = "" THEN "valid port is required when DSN is not provided"
    ELSE "ok"

\* ConnectionPool.getConnectionKey
getConnectionKey(c) ==
    IF c.DSN # "" THEN c.DSN
    ELSE c.Host \o ":" \o ToString(c.Port) \o "/" \o c.Database \o "@" \o c.User

(***************************************************************************)
(* database: ConnectionPool                                                *)
(***************************************************************************)
\* NewConnectionPool: the cap the pool is created with
NewConnectionPool(n) == IF n <= 0 THEN DefaultMaxConns ELSE n

Size(m) == Cardinality(DOMAIN m)

\* the test of Borrow's two cap checks: len(p.connections) >= p.maxConns
PoolFull_offbyone(m) == Size(m) > maxConns
PoolFull(m) == Size(m) >= maxConns

\* the entries cleanupUnusedConnections removes: not used and last used before the cutoff
IdleOld_anyidle(e, t) == e.lastUsed < t - IdleMinutes
IdleOld(e, t) == ~e.used /\ e.lastUsed < t - IdleMinutes

Evictable(m, t) == {k \in DOMAIN m : IdleOld(m[k], t)}

\* a map without the keys ks (delete)
Without(m, ks) == [k \in DOMAIN m \ ks |-> m[k]]

\* a map with key k set to e (m[k] = e)
With(m, k, e) == [x \in DOMAIN m \cup {k} |-> IF x = k THEN e ELSE m[x]]

\* ConnectionPool.cleanupUnusedConnections: the map it leaves
cleanupUnusedConnections(m, t) == Without(m, Evictable(m, t))

\* ConnectionPool.testConnection: a closed handle never pings; an open one
\* pings when the server answers (net)
testConnection(db, net) == db \notin closedDB /\ net

NoLast == [op |-> "none"]

PoolInit ==
    /\ \E n \in 0..MaxCap : maxConns = NewConnectionPool(n)
    /\ connections = << >>
    /\ opened = 0
    /\ closedDB = {}
    /\ conns = << >>
    /\ now = 0
    /\ calls = 0
    /\ last = NoLast

\* what Borrow reports: outcome, the key, the handle returned (0: none), whether
\* the idle sweep ran and what it evicted, and the outcome of the liveness probe
BorrowResult(outcome, key, db, swept, evicted, probe) ==
    [op |-> "Borrow", outcome |-> outcome, key |-> key, db |-> db,
     swept |-> swept, evicted |-> evicted, probe |-> probe]

\* ConnectionPool.Borrow(config) on the map m; net: the server answers the ping,
\* openOK: gorm.Open succeeds
BorrowFrom(m, cfg, net, openOK) ==
    /\ calls < MaxCalls
    /\ calls' = calls + 1
    /\ UNCHANGED <<maxConns, now>>
    /\ IF Validate(cfg) # "ok"
       THEN /\ last' = BorrowResult("invalid", "", 0, FALSE, {}, "none")
            /\ connections' = m
            /\ UNCHANGED <<opened, closedDB, conns>>
       ELSE
        LET key == getConnectionKey(cfg)
            idle == key \in DOMAIN m /\ ~m[key].used
            probe == IF ~idle THEN "none"
                     ELSE IF testConnection(m[key].db, net) THEN "ok" ELSE "fail"
        IN  IF probe = "ok"
            THEN \* reuse the pooled handle
                 /\ connections' = With(m, key,
                        [m[key] EXCEPT !.used = TRUE, !.lastUsed = now])
                 /\ conns' = Append(conns, [db |-> m[key].db, key |-> key, open |-> TRUE])
                 /\ last' = BorrowResult("reused", key, m[key].db, FALSE, {}, probe)
                 /\ UNCHANGED <<opened, closedDB>>
            ELSE
             LET swept == PoolFull(m)
                 evicted == IF swept THEN Evictable(m, now) ELSE {}
                 kept == IF swept THEN cleanupUnusedConnections(m, now)
                         ELSE m
             IN  /\ closedDB' = closedDB \cup {m[k].db : k \in evicted}
                 /\ IF swept /\ PoolFull(kept)
                    THEN /\ connections' = kept
                         /\ last' = BorrowResult("exhausted", key, 0, swept, evicted, probe)
                         /\ UNCHANGED <<opened, conns>>
                    ELSE IF ~openOK
                    THEN /\ connections' = kept
                         /\ last' = BorrowResult("createfail", key, 0, swept, evicted, probe)
                         /\ UNCHANGED <<opened, conns>>
                    ELSE /\ opened' = opened + 1
                         /\ connections' = With(kept, key,
                                [db |-> opened + 1, config |-> cfg, used |-> TRUE, lastUsed |-> now])
                         /\ conns' = Append(conns, [db |-> opened + 1, key |-> key, open |-> TRUE])
                         /\ last' = BorrowResult("created", key, opened + 1, swept, evicted, probe)

\* ConnectionPool.Borrow(config), called on the pool directly
Borrow(cfg, net, openOK) ==
    /\ BorrowFrom(connections, cfg, net, openOK)
    /\ UNCHANGED nonPoolVars

\* ConnectionPool.Return(key): the map it leaves
Return(m, key, t) ==
    IF key \in DOMAIN m
    THEN With(m, key, [m[key] EXCEPT !.used = FALSE, !.lastUsed = t])
    ELSE m

\* Connection.Close by the holder of wrapper i (each holder closes once)
Close(i) ==
    /\ i \in DOMAIN conns
    /\ conns[i].open
    /\ connections' = Return(connections, conns[i].key, now)
    /\ conns' = [conns EXCEPT ![i].open = FALSE]
    /\ UNCHANGED <<maxConns, opened, closedDB, now, calls, last, nonPoolVars>>

\* ConnectionPool.CloseAll(config)
CloseAll(cfg) ==
    LET key == getConnectionKey(cfg)
    IN  /\ key \in DOMAIN connections
        /\ closedDB' = closedDB \cup {connections[key].db}
        /\ connections' = Without(connections, {key})
        /\ UNCHANGED <<maxConns, opened, conns, now, calls, last, nonPoolVars>>

\* ConnectionPool.CloseAllConnections
CloseAllConnections ==
    /\ connections # << >>
    /\ closedDB' = closedDB \cup {connections[k].db : k \in DOMAIN connections}
    /\ connections' = << >>
    /\ UNCHANGED <<maxConns, opened, conns, now, calls, last, nonPoolVars>>

\* time passes
Tick ==
    /\ now + TickMinutes <= MaxNow
    /\ now' = now + TickMinutes
    /\ UNCHANGED <<maxConns, connections, opened, closedDB, conns, calls, last, nonPoolVars>>

PoolNext ==
    \/ \E cfg \in Configs, net \in BOOLEAN, openOK \in BOOLEAN : Borrow(cfg, net, openOK)
    \/ \E i \in 1..MaxCalls : Close(i)
    \/ \E cfg \in Configs : CloseAll(cfg)
    \/ CloseAllConnections
    \/ Tick

(***************************************************************************)
(* http: Go values held in a session, and their JSON encoding              *)
(***************************************************************************)
VStr(x) == [t |-> "string", v |-> x]
VInt(n) == [t |-> "int", v |-> n]
VFloat(n) == [t |-> "float64", v |-> n]     \* a float64 with an integral value
VNil == [t |-> "nil"]

\* json.Marshal of a value, as text
ToJSON(x) ==
    CASE x.t = "string" -> "\"" \o x.v \o "\""
      [] x.t = "int" -> ToString(x.v)
      [] x.t = "float64" -> ToString(x.v)
      [] OTHER -> "null"

\* deepEqual: equality of the JSON encodings
deepEqual(a, b) == ToJSON(a) = ToJSON(b)

\* json.Unmarshal of a value into interface{}: numbers come back as float64
FromJSON(j, x) ==
    CASE x.t = "int" -> VFloat(x.v)
      [] OTHER -> x

(***************************************************************************)
(* http: Session                                                           *)
(***************************************************************************)
\* getDefaultContext
getDefaultContext == [lang |-> VStr("en_US"), tz |-> VStr("UTC"), timezone |-> VStr("UTC")]

\* NewSession(sid) at time t
NewSession(sid, t) ==
    [SID |-> sid, Data |-> << >>, IsDirty |-> FALSE, IsNew |-> TRUE,
     ShouldRotate |-> FALSE, CanSave |-> TRUE, CreatedAt |-> t, LastAccessed |-> t,
     DBName |-> "", UserID |-> 0, Login |-> "", Context |-> getDefaultContext]

\* Session.IsAuthenticated
IsAuthenticated_uidonly(s) == s.UserID # 0
IsAuthenticated(s) == s.UserID # 0 /\ s.Login # ""

\* Session.Set(key, value): the session it leaves
SessionSet(s, key, value) ==
    CASE key \in {"db_name", "db"} ->
            IF value.t = "string" THEN [s EXCEPT !.DBName = value.v, !.IsDirty = TRUE] ELSE s
      [] key \in {"user_id", "uid"} ->
            IF value.t = "int" THEN [s EXCEPT !.UserID = value.v, !.IsDirty = TRUE] ELSE s
      [] key = "login" ->
            IF value.t = "string" THEN [s EXCEPT !.Login = value.v, !.IsDirty = TRUE] ELSE s
      [] OTHER ->
            [s EXCEPT !.Data = With(s.Data, key, value),
                      !.IsDirty = IF key \notin DOMAIN s.Data \/ ~deepEqual(s.Data[key], value)
                                  THEN TRUE ELSE s.IsDirty]

\* Session.Delete(key): the session it leaves
SessionDelete(s, key) ==
    CASE key \in {"db_name", "db"} -> [s EXCEPT !.DBName = "", !.IsDirty = TRUE]
      [] key \in {"user_id", "uid"} -> [s EXCEPT !.UserID = 0, !.IsDirty = TRUE]
      [] key = "login" -> [s EXCEPT !.Login = "", !.IsDirty = TRUE]
      [] OTHER ->
            IF key \in DOMAIN s.Data
            THEN [s EXCEPT !.Data = Without(s.Data, {key}), !.IsDirty = TRUE]
            ELSE s

\* Session.Clear
SessionClear(s) ==
    [s EXCEPT !.Data = << >>, !.DBName = "", !.UserID = 0, !.Login = "",
              !.Context = getDefaultContext, !.IsDirty = TRUE]

\* the map m overlaid with the entries of u (for key, value := range u { m[key] = value })
Overlay(m, u) == [k \in DOMAIN m \cup DOMAIN u |-> IF k \in DOMAIN u THEN u[k] ELSE m[k]]

\* Session.Authenticate(dbname, login, userID)
SessionAuthenticate(s, dbname, login, userID) ==
    [s EXCEPT !.DBName = dbname, !.Login = login, !.UserID = userID, !.IsDirty = TRUE,
              !.Context = Overlay(s.Context,
                    [db_name |-> VStr(dbname), user_id |-> VInt(userID), login |-> VStr(login)])]

\* Session.Logout(keepDB)
SessionLogout(s, keepDB) ==
    [s EXCEPT !.DBName = IF keepDB THEN s.DBName ELSE "",
              !.UserID = 0, !.Login = "", !.IsDirty = TRUE,
              !.Context = Without(s.Context,
                    {"user_id", "login"} \cup (IF keepDB THEN {} ELSE {"db_name"}))]

\* Session.Touch at time t
SessionTouch(s, t) == [s EXCEPT !.LastAccessed = t, !.IsDirty = TRUE]

\* Session.UpdateContext(updates)
SessionUpdateContext(s, updates) ==
    [s EXCEPT !.Context = Overlay(s.Context, updates), !.IsDirty = TRUE]

\* Request.UpdateEnvironment(userID, context) as far as the session goes;
\* context.nil says that the map passed is nil
UpdateEnvironmentSession(s, userID, context) ==
    LET s1 == IF userID # 0 THEN [s EXCEPT !.UserID = userID] ELSE s
    IN  IF ~context.nil THEN SessionUpdateContext(s1, context.m) ELSE s1

(***************************************************************************)
(* http: FilesystemSessionStore                                            *)
(***************************************************************************)
\* json.MarshalIndent(session): the fields with a json tag; db_name, user_id
\* and login are omitempty
MarshalSession(s) ==
    LET present == {"sid", "data", "created_at", "last_accessed", "context"}
                   \cup (IF s.DBName # "" THEN {"db_name"} ELSE {})
                   \cup (IF s.UserID # 0 THEN {"user_id"} ELSE {})
                   \cup (IF s.Login # "" THEN {"login"} ELSE {})
    IN  [f \in present |->
            CASE f = "sid" -> s.SID
              [] f = "data" -> [k \in DOMAIN s.Data |-> ToJSON(s.Data[k])]
              [] f = "created_at" -> s.CreatedAt
              [] f = "last_accessed" -> s.LastAccessed
              [] f = "context" -> [k \in DOMAIN s.Context |-> ToJSON(s.Context[k])]
              [] f = "db_name" -> s.DBName
              [] f = "user_id" -> s.UserID
              [] f = "login" -> s.Login]

\* the decoded values of a saved map: what json.Unmarshal puts into
\* map[string]interface{} for the values src was encoded from
DecodeMap(j, src) == [k \in DOMAIN j |-> FromJSON(j[k], src[k])]

\* a session file written at time t: the JSON text (as MarshalSession gives
\* it), to decode it the values it was encoded from, and the file's ModTime
SessionFile(s, t) ==
    [json |-> MarshalSession(s), data |-> s.Data, context |-> s.Context, modTime |-> t]

\* a file that json.Unmarshal rejects: what os.WriteFile leaves when it fails
\* after truncating the file
MalformedFile(t) == [garbage |-> TRUE, modTime |-> t]

\* json.Unmarshal(data, &session) succeeds
Parses(file) == "json" \in DOMAIN file

\* the session Get returns when it returns none, and r.Session before
\* initSession has bound one
NilSession == [nil |-> TRUE]
IsNil(s) == "nil" \in DOMAIN s

\* json.Unmarshal(data, &session), then Get's resets and Touch at time t
LoadSession(file, t) ==
    LET j == file.json
    IN  SessionTouch(
            [SID |-> j["sid"],
             Data |-> DecodeMap(j["data"], file.data),
             IsDirty |-> FALSE, IsNew |-> FALSE, ShouldRotate |-> FALSE, CanSave |-> TRUE,
             CreatedAt |-> j["created_at"], LastAccessed |-> j["last_accessed"],
             DBName |-> IF "db_name" \in DOMAIN j THEN j["db_name"] ELSE "",
             UserID |-> IF "user_id" \in DOMAIN j THEN j["user_id"] ELSE 0,
             Login |-> IF "login" \in DOMAIN j THEN j["login"] ELSE "",
             Context |-> DecodeMap(j["context"], file.context)], t)

\* session ids: generateSessionID gives 64 hex characters; a cookie may carry
\* anything
Sids == {"sid-a", "sid-b"}
SidLen(sid) == IF sid \in Sids THEN 64 ELSE Len(sid)

\* FilesystemSessionStore.IsValidKey
IsValidKey_lengthonly(sid) == SidLen(sid) = 64
IsValidKey(sid) == SidLen(sid) = 64 /\ sid \in DOMAIN files

\* inputs of the session operations
SetKeys == {"db_name", "db", "user_id", "uid", "login", "k"}
SetValues == {VStr("bob"), VInt(7), VFloat(7), VNil}
CtxUpdates == {<< >>, [lang |-> VStr("fr_FR")]}
CtxArgs == {[nil |-> TRUE, m |-> << >>]} \cup {[nil |-> FALSE, m |-> u] : u \in CtxUpdates}

SessInit ==
    /\ wall = 0
    /\ sess = NewSession("sid-a", 0)
    /\ files = << >>
    /\ sops = 0
    /\ sop = [op |-> "New"]
    /\ base = MarshalSession(sess)

\* a session operation: the session it leaves and the record of the call
SessOp(s, rec) ==
    /\ sops < MaxSessOps
    /\ sops' = sops + 1
    /\ sess' = s
    /\ sop' = rec
    /\ UNCHANGED <<files, wall, base, nonSessVars>>

Set(key, value) == SessOp(SessionSet(sess, key, value), [op |-> "Set", key |-> key, value |-> value])

Delete(key) == SessOp(SessionDelete(sess, key), [op |-> "Delete", key |-> key])

Clear == SessOp(SessionClear(sess), [op |-> "Clear"])

Authenticate(dbname, login, userID) ==
    SessOp(SessionAuthenticate(sess, dbname, login, userID), [op |-> "Authenticate"])

Logout(keepDB) == SessOp(SessionLogout(sess, keepDB), [op |-> "Logout", keepDB |-> keepDB])

Touch == SessOp(SessionTouch(sess, wall), [op |-> "Touch"])

UpdateContext(updates) ==
    SessOp(SessionUpdateContext(sess, updates), [op |-> "UpdateContext"])

UpdateEnvironment(userID, context) ==
    SessOp(UpdateEnvironmentSession(sess, userID, context),
           [op |-> "UpdateEnvironment", userID |-> userID])

\* the outcomes of os.WriteFile: the file is written ("ok"), the call fails
\* before it touches the file ("fail"), or fails after truncating it ("partial")
WriteOutcomes == {"ok", "fail", "partial"}

\* the directory after os.WriteFile of session s at time t
WriteFile(dir, s, t, outcome) ==
    CASE outcome = "ok" -> With(dir, s.SID, SessionFile(s, t))
      [] outcome = "partial" -> With(dir, s.SID, MalformedFile(t))
      [] OTHER -> dir

\* FilesystemSessionStore.Save(session): the session it leaves and the error
\* it returns ("nil" for none)
SaveSkips(s) == ~s.CanSave \/ ~s.IsDirty

SaveFlags_reset(s, outcome) == [s EXCEPT !.IsDirty = FALSE, !.IsNew = FALSE]
SaveFlags(s, outcome) ==
    IF outcome = "ok" THEN [s EXCEPT !.IsDirty = FALSE, !.IsNew = FALSE] ELSE s

SaveError(s, outcome) ==
    IF SaveSkips(s) \/ outcome = "ok" THEN "nil" ELSE "failed to write session file"

StoreSave(outcome) ==
    /\ sops < MaxSessOps
    /\ sops' = sops + 1
    /\ sop' = [op |-> "Save", outcome |-> outcome, err |-> SaveError(sess, outcome),
                skipped |-> SaveSkips(sess)]
    /\ IF SaveSkips(sess)
       THEN UNCHANGED <<sess, files, base>>
       ELSE /\ files' = WriteFile(files, sess, wall, outcome)
            /\ sess' = SaveFlags(sess, outcome)
            /\ base' = IF outcome = "ok" THEN MarshalSession(sess) ELSE base
    /\ UNCHANGED <<wall, nonSessVars>>

\* FilesystemSessionStore.New: a session under an id not in use
StoreNew(sid) ==
    /\ sops < MaxSessOps
    /\ sid \notin DOMAIN files
    /\ sid # sess.SID
    /\ sops' = sops + 1
    /\ sop' = [op |-> "New"]
    /\ sess' = NewSession(sid, wall)
    /\ base' = MarshalSession(sess')
    /\ UNCHANGED <<files, wall, nonSessVars>>

\* FilesystemSessionStore.Get(sid) at time t over directory dir: the session
\* it returns; nsid is the id generateSessionID gives if a new one is made
GetSession_renewing(dir, sid, nsid, t) ==
    IF SidLen(sid) = 64 /\ sid \in DOMAIN dir /\ Parses(dir[sid])
    THEN LoadSession(dir[sid], t)
    ELSE NewSession(nsid, t)
GetSession(dir, sid, nsid, t) ==
    IF SidLen(sid) = 64 /\ sid \in DOMAIN dir /\ Parses(dir[sid])
    THEN LoadSession(dir[sid], t)
    ELSE IF renewMissing THEN NewSession(nsid, t)
    ELSE NilSession

\* FilesystemSessionStore.Get(sid): the request is bound to the session it
\* returns
StoreGet(sid, nsid) ==
    /\ sops < MaxSessOps
    /\ nsid \notin DOMAIN files
    /\ nsid # sess.SID
    /\ sops' = sops + 1
    /\ LET s == GetSession(files, sid, nsid, wall)
       IN  /\ sop' = [op |-> "Get", sid |-> sid, isNil |-> IsNil(s)]
           /\ sess' = IF IsNil(s) THEN sess ELSE s
           /\ base' = IF IsNil(s) THEN base
                      ELSE IF s.IsNew THEN MarshalSession(s) ELSE files[sid].json
    /\ UNCHANGED <<files, wall, nonSessVars>>

\* time passes
TickWall ==
    /\ wall + TickHours <= MaxWall
    /\ wall' = wall + TickHours
    /\ UNCHANGED <<sess, files, sops, sop, base, nonSessVars>>

SessNext ==
    \/ \E key \in SetKeys, value \in SetValues : Set(key, value)
    \/ \E key \in SetKeys : Delete(key)
    \/ Clear
    \/ Authenticate("d1", "bob", 7)
    \/ \E keepDB \in BOOLEAN : Logout(keepDB)
    \/ Touch
    \/ \E updates \in CtxUpdates : UpdateContext(updates)
    \/ \E userID \in {0, 7}, context \in CtxArgs : UpdateEnvironment(userID, context)
    \/ \E outcome \in WriteOutcomes : StoreSave(outcome)
    \/ \E sid \in Sids : StoreNew(sid)
    \/ \E sid \in Sids \cup {"short"}, nsid \in Sids : StoreGet(sid, nsid)
    \/ TickWall

(***************************************************************************)
(* http: FilesystemSessionStore.Save beside a mutator of the same session  *)
(*                                                                         *)
(* The methods of Session hold s.mu for their whole body, so each is one   *)
(* step.  Save holds fs.mu, never s.mu: its reads and writes of the        *)
(* session are separate steps, and the steps of a mutator fall between     *)
(* them.                                                                   *)
(***************************************************************************)
\* no Save is running; saved says whether one has run to its end
SaveIdle(saved) == [pc |-> "idle", saved |-> saved]

\* Save, line 295: the test of CanSave and IsDirty, then fs.mu.Lock().  A Save
\* that returns here changes nothing.
SaveBegin ==
    /\ saving.pc = "idle"
    /\ ~SaveSkips(sess)
    /\ saving' = [pc |-> "locked", saved |-> saving.saved]
    /\ UNCHANGED <<sessVars, nonSaveVars>>

\* Save, line 303: json.MarshalIndent(session) reads the fields as they are
SaveMarshal ==
    /\ saving.pc = "locked"
    /\ saving' = [pc |-> "marshalled", saved |-> saving.saved, snapshot |-> sess]
    /\ UNCHANGED <<sessVars, nonSaveVars>>

\* Save, line 308: os.WriteFile(sessionFile, data, 0644); a failed write ends
\* the Save
SaveWrite(outcome) ==
    /\ saving.pc = "marshalled"
    /\ files' = WriteFile(files, saving.snapshot, wall, outcome)
    /\ saving' = IF outcome = "ok" THEN [pc |-> "written", saved |-> saving.saved]
                 ELSE SaveIdle(saving.saved)
    /\ UNCHANGED <<sess, wall, sops, sop, base, nonSaveVars>>

\* Save, lines 312-313: session.IsDirty = false; session.IsNew = false
SaveReset ==
    /\ saving.pc = "written"
    /\ sess' = [sess EXCEPT !.IsDirty = FALSE, !.IsNew = FALSE]
    /\ saving' = SaveIdle(TRUE)
    /\ UNCHANGED <<files, wall, sops, sop, base, nonSaveVars>>

\* the goroutine that owns the session mutates it; another one saves it
ConcurrentNext ==
    \/ \E key \in SetKeys, value \in SetValues : Set(key, value)
    \/ \E key \in SetKeys : Delete(key)
    \/ Authenticate("d1", "bob", 7)
    \/ \E keepDB \in BOOLEAN : Logout(keepDB)
    \/ \E updates \in CtxUpdates : UpdateContext(updates)
    \/ SaveBegin
    \/ SaveMarshal
    \/ \E outcome \in WriteOutcomes : SaveWrite(outcome)
    \/ SaveReset

(***************************************************************************)
(* http: a request - NewRequest, RequestMiddleware                         *)
(*                                                                         *)
(* One request at a time goes through the middleware; the store's Delete   *)
(* and Cleanup run beside it.  r.Session is sess.                          *)
(***************************************************************************)
\* the cookie values a request may carry: none, a generated id, anything else
Cookies == {""} \cup Sids \cup {"short"}

\* the entries initSession puts into the session's context
RequestContext ==
    [request_id |-> VStr("rid"), user_agent |-> VStr("ua"), remote_addr |-> VStr("addr"),
     path |-> VStr("/"), method |-> VStr("GET")]

\* the end of initSession: UpdateContext, Touch
InitBound(s, t) == SessionTouch(SessionUpdateContext(s, RequestContext), t)

\* echo.NewHTTPError(code, message), and the nil error
HTTPError(code, message) == [code |-> code, message |-> message]
NoError == [code |-> 0, message |-> << >>]

\* a request not yet begun: n requests were served before it
IdleRequest(n) ==
    [pc |-> "idle", n |-> n, cookie |-> "", sid |-> "", setCookie |-> "", loaded |-> FALSE,
     route |-> "", status |-> 0, body |-> << >>, err |-> NoError, handled |-> FALSE,
     dispatched |-> FALSE, saved |-> FALSE, saveErr |-> "nil", result |-> NoError]

ReqInit ==
    /\ req = IdleRequest(0)
    /\ sess = NilSession
    /\ files = << >>
    /\ wall = 0
    /\ sops = 0
    /\ sop = [op |-> "none"]
    /\ base = << >>

\* generateSessionID: an id no session has and no request carries
FreshSid(nsid) ==
    /\ nsid \in Sids
    /\ nsid \notin DOMAIN files
    /\ nsid # req.cookie
    /\ IF IsNil(sess) THEN TRUE ELSE nsid # sess.SID

\* Request.initSession up to the call of Get: the cookie is read and checked
\* with IsValidKey; without a valid key the session is new and the cookie set
initSession(cookie, nsid) ==
    /\ req.pc = "idle"
    /\ req.n < MaxRequests
    /\ FreshSid(nsid)
    /\ nsid # cookie
    /\ IF cookie # "" /\ IsValidKey(cookie)
       THEN /\ req' = [req EXCEPT !.pc = "get", !.cookie = cookie, !.sid = cookie]
            /\ sess' = NilSession
       ELSE /\ sess' = InitBound(NewSession(nsid, wall), wall)
            /\ req' = [req EXCEPT !.pc = "next", !.cookie = cookie, !.setCookie = nsid]
    /\ UNCHANGED <<files, wall, sops, sop, base, apiVars, nonReqVars>>

\* Request.initSession from the call of Get on
initSessionGet(nsid) ==
    /\ req.pc = "get"
    /\ FreshSid(nsid)
    /\ LET s == GetSession(files, req.sid, nsid, wall)
       IN  /\ sess' = InitBound(s, wall)
           /\ req' = [req EXCEPT !.pc = "next", !.loaded = ~s.IsNew]
    /\ UNCHANGED <<files, wall, sops, sop, base, apiVars, nonReqVars>>

\* os.Remove(name): the error it returns
Remove(dir, sid) == IF sid \in DOMAIN dir THEN "nil" ELSE "no such file or directory"

\* FilesystemSessionStore.Delete(sid)
StoreDelete(sid) ==
    /\ files' = Without(files, {sid})
    /\ sop' = [op |-> "Delete", sid |-> sid, err |-> Remove(files, sid)]
    /\ UNCHANGED <<sess, wall, sops, base, req, apiVars, nonReqVars>>

\* FilesystemSessionStore.Cleanup: the files whose ModTime is before the cutoff
Expired_all(dir, t) == DOMAIN dir
Expired(dir, t) == {sid \in DOMAIN dir : dir[sid].modTime < t - SessionMaxAgeHours}

\* filepath.Walk visits the files in lexical order
WalkOrder == <<"sid-a", "sid-b">>

\* the walk of Cleanup from the i-th file on: an expired file is removed; the
\* first error of os.Remove ends the walk and is returned
RECURSIVE Walk(_, _, _, _)
Walk(dir, t, failing, i) ==
    IF i > Len(WalkOrder) THEN [dir |-> dir, err |-> "nil"]
    ELSE LET sid == WalkOrder[i]
         IN  IF sid \in Expired(dir, t)
             THEN IF sid \in failing
                  THEN [dir |-> dir, err |-> "remove failed"]
                  ELSE Walk(Without(dir, {sid}), t, failing, i + 1)
             ELSE Walk(dir, t, failing, i + 1)

\* FilesystemSessionStore.Cleanup; os.Remove fails on the files of failing
Cleanup(failing) ==
    /\ LET w == Walk(files, wall, failing, 1)
       IN  /\ files' = w.dir
           /\ sop' = [op |-> "Cleanup", err |-> w.err,
                      removed |-> DOMAIN files \ DOMAIN w.dir]
    /\ UNCHANGED <<sess, wall, sops, base, req, apiVars, nonReqVars>>

(***************************************************************************)
(* api: APIRegistry, MethodBuilder, ExecuteCall                            *)
(*                                                                         *)
(* A message is the sequence of its words.  The builder call Context sets  *)
(* a field that the dispatcher's decisions do not read, as Returns and     *)
(* Help do; Returns and Help stand for it.                                 *)
(***************************************************************************)
ModelNames == {"partner", "user"}
MethodNames == {"create"}
GroupNames == {"admin"}

\* the models of the field model registry (models.GetFieldModel), each with
\* the names of its required fields
FieldModels == "partner" :> [Required |-> {"name"}]

\* strings.Contains, on words
Contains(msg, sub) ==
    \E i \in 1..(Len(msg) - Len(sub) + 1) : SubSeq(msg, i, i + Len(sub) - 1) = sub

\* the APIMethod NewMethod allocates
NewAPIMethod(modelName, methodName, handlerIsFunc) ==
    [Name |-> methodName, Type |-> "record", Public |-> TRUE, Groups |-> {},
     Constrains |-> << >>, Depends |-> << >>, OnChange |-> << >>,
     Returns |-> "", Help |-> "", HandlerIsFunc |-> handlerIsFunc,
     Model |-> IF modelName \in DOMAIN FieldModels THEN modelName ELSE "nil"]

\* the registry with method id stored under modelName, methodName
Registered(reg, modelName, methodName, id) ==
    With(reg, modelName,
         With(IF modelName \in DOMAIN reg THEN reg[modelName] ELSE << >>, methodName, id))

ApiInit ==
    /\ methods = << >>
    /\ registry = << >>
    /\ privApplied = {}
    /\ committed = << >>
    /\ invoked = 0
    /\ apiOps = 0
    /\ resp = [op |-> "none"]

\* the decorators of MethodBuilder: the APIMethod b.method after the call
\* name(arg) on the APIMethod m
Decorated_appending(m, name, arg) ==
    CASE name = "Model" -> [m EXCEPT !.Type = "model"]
      [] name = "Private" -> [m EXCEPT !.Type = "private", !.Public = FALSE]
      [] name = "Constrains" -> [m EXCEPT !.Constrains = m.Constrains \o arg]
      [] name = "Depends" -> [m EXCEPT !.Depends = m.Depends \o arg]
      [] name = "OnChange" -> [m EXCEPT !.OnChange = m.OnChange \o arg]
      [] name = "Returns" -> [m EXCEPT !.Returns = arg]
      [] name = "Groups" -> [m EXCEPT !.Groups = arg]
      [] name = "Help" -> [m EXCEPT !.Help = arg]
Decorated(m, name, arg) ==
    CASE name = "Model" -> [m EXCEPT !.Type = "model"]
      [] name = "Private" -> [m EXCEPT !.Type = "private", !.Public = FALSE]
      [] name = "Constrains" -> [m EXCEPT !.Constrains = arg]
      [] name = "Depends" -> [m EXCEPT !.Depends = arg]
      [] name = "OnChange" -> [m EXCEPT !.OnChange = arg]
      [] name = "Returns" -> [m EXCEPT !.Returns = arg]
      [] name = "Groups" -> [m EXCEPT !.Groups = arg]
      [] name = "Help" -> [m EXCEPT !.Help = arg]

\* a builder call on the method b.method = methods[i]
BuilderCall(i, m) ==
    /\ apiOps < MaxApiOps
    /\ i \in 1..Len(methods)
    /\ apiOps' = apiOps + 1
    /\ methods' = [methods EXCEPT ![i] = m]
    /\ UNCHANGED <<registry, invoked, resp, nonApiVars>>

\* APIRegistry.NewMethod(modelName, methodName, handler)
NewMethod(modelName, methodName, handlerIsFunc) ==
    /\ apiOps < MaxApiOps
    /\ Len(methods) < MaxMethods
    /\ apiOps' = apiOps + 1
    /\ methods' = Append(methods, NewAPIMethod(modelName, methodName, handlerIsFunc))
    /\ registry' = Registered(registry, modelName, methodName, Len(methods) + 1)
    /\ UNCHANGED <<privApplied, committed, invoked, resp, nonApiVars>>

\* MethodBuilder.Model
Model(i) ==
    /\ i \in 1..Len(methods)
    /\ BuilderCall(i, Decorated(methods[i], "Model", << >>))
    /\ UNCHANGED <<privApplied, committed>>

\* MethodBuilder.Private
Private(i) ==
    /\ i \in 1..Len(methods)
    /\ BuilderCall(i, Decorated(methods[i], "Private", << >>))
    /\ privApplied' = privApplied \cup {i}
    /\ UNCHANGED committed

\* MethodBuilder.Constrains(fields...)
Constrains(i, fields) ==
    /\ i \in 1..Len(methods)
    /\ BuilderCall(i, Decorated(methods[i], "Constrains", fields))
    /\ UNCHANGED <<privApplied, committed>>

\* MethodBuilder.Depends(fields...)
Depends(i, fields) ==
    /\ i \in 1..Len(methods)
    /\ BuilderCall(i, Decorated(methods[i], "Depends", fields))
    /\ UNCHANGED <<privApplied, committed>>

\* MethodBuilder.OnChange(fields...)
OnChange(i, fields) ==
    /\ i \in 1..Len(methods)
    /\ BuilderCall(i, Decorated(methods[i], "OnChange", fields))
    /\ UNCHANGED <<privApplied, committed>>

\* MethodBuilder.Groups(groups...)
Groups(i, groups) ==
    /\ i \in 1..Len(methods)
    /\ BuilderCall(i, Decorated(methods[i], "Groups", groups))
    /\ UNCHANGED <<privApplied, committed>>

\* MethodBuilder.Returns(modelName)
Returns(i, modelName) ==
    /\ i \in 1..Len(methods)
    /\ BuilderCall(i, Decorated(methods[i], "Returns", modelName))
    /\ UNCHANGED <<privApplied, committed>>

\* MethodBuilder.Help(help)
Help(i, help) ==
    /\ i \in 1..Len(methods)
    /\ BuilderCall(i, Decorated(methods[i], "Help", help))
    /\ UNCHANGED <<privApplied, committed>>

\* MethodBuilder.Register: returns b.method
Register(i) ==
    /\ i \in 1..Len(methods)
    /\ BuilderCall(i, methods[i])
    /\ committed' = With(committed, i, methods[i])
    /\ UNCHANGED privApplied

\* APIRegistry.GetPublicMethods(modelName): the names of the methods listed
GetPublicMethods(modelName) ==
    IF modelName \notin DOMAIN registry THEN {}
    ELSE {name \in DOMAIN registry[modelName] : methods[registry[modelName][name]].Public}

\* the check ExecuteCall makes before anything else is done with the method
Accessible_byType(m) == m.Type # "private"
Accessible(m) == m.Public

\* the request a call is made for, as the dispatcher sees it: the user id and
\* login of its session.  Groups are the groups the user belongs to; the
\* program has no record of them and no code reads them.
Caller(userID, login, groups) == [UserID |-> userID, Login |-> login, Groups |-> groups]
Callers ==
    {Caller(u, l, {}) : u \in {0, 7}, l \in {"", "bob"}} \cup {Caller(7, "bob", GroupNames)}

\* APIRegistry.checkPermissions: the error, or << >> for nil
PermissionDenied(m, caller) == Cardinality(m.Groups) > 0 /\ caller.UserID = 0
checkPermissions(m, caller) ==
    IF PermissionDenied(m, caller) THEN <<"authentication", "required">> ELSE << >>

\* an APIResponse of a failed call; called says whether the handler ran
Failure(err, id, called) ==
    [Success |-> FALSE, Error |-> err, method |-> id, called |-> called]

\* the errors a handler may return (results[1]), as the words of err.Error();
\* << >> is nil
HandlerErrors ==
    {<< >>, <<"handler", "failed">>, <<"Access", "denied:", "record", "not", "found">>}

\* executeModelMethod, from the point where the handler is looked at
executeModelMethod(m, id, handlerErr) ==
    IF ~m.HandlerIsFunc THEN Failure(<<"handler", "is", "not", "a", "function">>, id, FALSE)
    ELSE IF handlerErr # << >> THEN Failure(handlerErr, id, TRUE)
    ELSE [Success |-> TRUE, Error |-> << >>, method |-> id, called |-> TRUE]

\* executeRecordMethod
executeRecordMethod_unchecked(m, id, call, handlerErr) == executeModelMethod(m, id, handlerErr)
executeRecordMethod(m, id, call, handlerErr) ==
    IF call.IDs = 0 THEN Failure(<<"record", "method", "requires", "IDs">>, id, FALSE)
    ELSE executeModelMethod(m, id, handlerErr)

\* ModelDefinition.ValidateData(data): the error, or << >> for nil; data is
\* the set of the keys of the mapping, each with a valid value
ValidateData(model, data) ==
    LET missing == FieldModels[model].Required \ data
    IN  IF missing = {} THEN << >>
        ELSE <<"field", "'" \o (CHOOSE f \in missing : TRUE) \o "'", "is", "required">>

\* executeCreateMethod
executeCreateMethod(m, id, call, handlerErr) ==
    IF Len(call.Args) = 0 THEN Failure(<<"create", "method", "requires", "data">>, id, FALSE)
    ELSE IF m.Model # "nil" /\ \E k \in 1..Len(call.Args) : ValidateData(m.Model, call.Args[k]) # << >>
    THEN LET k == CHOOSE j \in 1..Len(call.Args) :
                      /\ ValidateData(m.Model, call.Args[j]) # << >>
                      /\ \A h \in 1..(j - 1) : ValidateData(m.Model, call.Args[h]) = << >>
         IN  Failure(<<"validation", "failed:">> \o ValidateData(m.Model, call.Args[k]), id, FALSE)
    ELSE executeModelMethod(m, id, handlerErr)

\* APIRegistry.ExecuteCall: the response; call.IDs is the length of the ids
\* list, call.Args the list of the mappings passed, handlerErr the error
\* the handler returns
ExecuteCallResponse(call, caller, handlerErr) ==
    IF call.ModelName \notin DOMAIN registry
    THEN Failure(<<"Model", "'" \o call.ModelName \o "'", "not", "found">>, 0, FALSE)
    ELSE IF call.Method \notin DOMAIN registry[call.ModelName]
    THEN Failure(<<"Method", "'" \o call.Method \o "'", "not", "found", "on", "model",
                   "'" \o call.ModelName \o "'">>, 0, FALSE)
    ELSE LET id == registry[call.ModelName][call.Method]
             m == methods[id]
         IN  IF ~Accessible(m)
             THEN Failure(<<"Method", "is", "not", "accessible", "via", "RPC">>, id, FALSE)
             ELSE IF checkPermissions(m, caller) # << >>
             THEN Failure(<<"Access", "denied:">> \o checkPermissions(m, caller), id, FALSE)
             ELSE CASE m.Type = "model" -> executeModelMethod(m, id, handlerErr)
                    [] m.Type = "model_create" -> executeCreateMethod(m, id, call, handlerErr)
                    [] m.Type = "record" -> executeRecordMethod(m, id, call, handlerErr)
                    [] OTHER -> Failure(<<"unknown", "method", "type:", m.Type>>, id, FALSE)

\* APIRegistry.ExecuteCall(ctx, call, req)
Dispatch(call, caller, handlerErr) ==
    /\ apiOps < MaxApiOps
    /\ apiOps' = apiOps + 1
    /\ LET r == ExecuteCallResponse(call, caller, handlerErr)
       IN  /\ resp' = [op |-> "ExecuteCall", at |-> apiOps', userID |-> caller.UserID,
                     response |-> r]
           /\ invoked' = IF r.called THEN invoked + 1 ELSE invoked
    /\ UNCHANGED <<methods, registry, privApplied, committed>>

\* a call made for a request of any caller
ExecuteCall(call, caller, handlerErr) ==
    /\ Dispatch(call, caller, handlerErr)
    /\ UNCHANGED nonApiVars

\* calls with ids and no args, and calls with one mapping and no ids
APICalls ==
    [ModelName : ModelNames \cup {"nomodel"}, Method : MethodNames \cup {"nomethod"},
     IDs : 0..1, Args : {<< >>}]
    \cup [ModelName : ModelNames \cup {"nomodel"}, Method : MethodNames \cup {"nomethod"},
          IDs : {0}, Args : {<<{}>>, <<{"name"}>>}]

ApiNext ==
    \/ \E modelName \in ModelNames, methodName \in MethodNames, handlerIsFunc \in BOOLEAN :
            NewMethod(modelName, methodName, handlerIsFunc)
    \/ \E i \in 1..MaxMethods : Model(i)
    \/ \E i \in 1..MaxMethods : Private(i)
    \/ \E i \in 1..MaxMethods, groups \in SUBSET GroupNames : Groups(i, groups)
    \/ \E i \in 1..MaxMethods : Returns(i, "partner")
    \/ \E i \in 1..MaxMethods : Help(i, "help")
    \/ \E call \in APICalls, caller \in Callers, handlerErr \in HandlerErrors :
            ExecuteCall(call, caller, handlerErr)

\* the arguments the decorators are called with
DecoratorNames == {"Model", "Constrains", "Depends", "OnChange", "Returns", "Groups", "Help"}
DecoratorArgs(name) ==
    CASE name = "Model" -> {<< >>}
      [] name = "Constrains" -> {<<"a">>, <<"a", "b">>}
      [] name \in {"Depends", "OnChange"} -> {<<"a">>}
      [] name = "Returns" -> {"partner"}
      [] name = "Groups" -> SUBSET GroupNames
      [] name = "Help" -> {"help"}

\* the building of methods: NewMethod, the decorators in any order, Register
BuilderNext ==
    \/ NewMethod("partner", "create", TRUE)
    \/ \E i \in 1..MaxMethods : Model(i)
    \/ \E i \in 1..MaxMethods : Private(i)
    \/ \E i \in 1..MaxMethods, fields \in DecoratorArgs("Constrains") : Constrains(i, fields)
    \/ \E i \in 1..MaxMethods, fields \in DecoratorArgs("Depends") : Depends(i, fields)
    \/ \E i \in 1..MaxMethods, fields \in DecoratorArgs("OnChange") : OnChange(i, fields)
    \/ \E i \in 1..MaxMethods, groups \in DecoratorArgs("Groups") : Groups(i, groups)
    \/ \E i \in 1..MaxMethods, modelName \in DecoratorArgs("Returns") : Returns(i, modelName)
    \/ \E i \in 1..MaxMethods, help \in DecoratorArgs("Help") : Help(i, help)
    \/ \E i \in 1..MaxMethods : Register(i)

(***************************************************************************)
(* logging: levels, configuration, the logger registry                     *)
(*                                                                         *)
(* A logger name is the sequence of its dot-separated parts, as            *)
(* strings.Split(name, ".") gives them; the root name "" is <<"">>.        *)
(***************************************************************************)
LogLevels == {"DEBUG", "INFO", "WARNING", "ERROR", "CRITICAL"}

\* GetLogLevelNumericValue
GetLogLevelNumericValue(level) ==
    CASE level = "DEBUG" -> 10
      [] level = "INFO" -> 20
      [] level = "WARNING" -> 30
      [] level = "ERROR" -> 40
      [] level = "CRITICAL" -> 50
      [] OTHER -> 20

\* strings.ToLower(strings.TrimSpace(level)) of the level texts in use
NormalizedLevel(text) ==
    CASE text = "DEBUG" -> "debug"
      [] text = "INFO" -> "info"
      [] text = "WARNING" -> "warning"
      [] text = "ERROR" -> "error"
      [] text = "CRITICAL" -> "critical"
      [] OTHER -> text

\* ParseLogLevelString
ParseLogLevelString(text) ==
    LET normalized == NormalizedLevel(text)
    IN  CASE normalized \in {"notset", ""} -> "INFO"
          [] normalized = "debug" -> "DEBUG"
          [] normalized = "info" -> "INFO"
          [] normalized \in {"warn", "warning"} -> "WARNING"
          [] normalized = "error" -> "ERROR"
          [] normalized \in {"critical", "crit"} -> "CRITICAL"
          [] OTHER -> "INFO"

\* CompareLogLevels
CompareLogLevels(level1, level2) ==
    GetLogLevelNumericValue(level1) >= GetLogLevelNumericValue(level2)

\* a configuration string "logger:LEVEL", split at the colon
Conf(logger, text) == [logger |-> logger, level |-> text]

RootName == <<"">>

\* DefaultLogConfiguration
DefaultLogConfiguration ==
    <<Conf(<<"goodoo", "http", "rpc", "request">>, "INFO"),
      Conf(<<"goodoo", "http", "rpc", "response">>, "INFO"),
      Conf(RootName, "INFO")>>

\* PseudoConfigMapper, for the values of GOODOO_LOG_LEVEL in use
PseudoConfigMapper(logLevel) ==
    CASE logLevel = "debug" -> <<Conf(<<"goodoo">>, "DEBUG"), Conf(<<"goodoo", "sql_db">>, "INFO")>>
      [] logLevel = "warn" -> <<Conf(<<"goodoo">>, "WARNING")>>
      [] OTHER -> << >>

\* LogConfig.GetLogConfigurations
GetLogConfigurations(c) ==
    DefaultLogConfiguration \o PseudoConfigMapper(c.LogLevel) \o c.LogHandler

\* LogConfig.BuildLoggerLevels: later entries replace earlier ones
RECURSIVE BuildFrom(_, _)
BuildFrom(configurations, levels) ==
    IF configurations = << >> THEN levels
    ELSE BuildFrom(Tail(configurations),
                   With(levels, Head(configurations).logger,
                        ParseLogLevelString(Head(configurations).level)))

BuildLoggerLevels(c) == BuildFrom(GetLogConfigurations(c), << >>)

\* LoggerLevels.GetLoggerLevel: the loop over the shorter prefixes, from i down
RECURSIVE PrefixLevel(_, _, _)
PrefixLevel(ll, parts, i) ==
    IF i <= 0
    THEN IF RootName \in DOMAIN ll THEN ll[RootName] ELSE "INFO"
    ELSE IF SubSeq(parts, 1, i) \in DOMAIN ll THEN ll[SubSeq(parts, 1, i)]
    ELSE PrefixLevel(ll, parts, i - 1)

GetLoggerLevel(ll, name) ==
    IF name \in DOMAIN ll THEN ll[name] ELSE PrefixLevel(ll, name, Len(name) - 1)

\* LoggerLevels.ShouldLog
ShouldLog(ll, loggerName, level) == CompareLogLevels(level, GetLoggerLevel(ll, loggerName))

\* the environments InitLogger may read its configuration from
LogConfigs ==
    {[LogLevel |-> "info", LogHandler |-> << >>],
     [LogLevel |-> "debug", LogHandler |-> << >>],
     [LogLevel |-> "info",
      LogHandler |-> <<Conf(<<"myapp", "sql">>, "DEBUG"), Conf(<<"myapp">>, "WARNING"),
                       Conf(RootName, "INFO")>>]}

LoggerNames == {<<"goodoo">>, <<"myapp", "http">>, <<"myapp", "sql", "driver">>, <<"other">>}

\* the handlers InitLogger creates: the stream handler and the PostgreSQL one
HandlerNames == {"stream", "pg"}

LogInit ==
    /\ loggers = << >>
    /\ loggerObjs = << >>
    /\ levelMaps = << >>
    /\ rootLogger = 0
    /\ initialized = FALSE
    /\ logOps = 0
    /\ lastlog = [op |-> "none"]

\* GetLogger(name)
GetLogger(name) ==
    /\ logOps < MaxLogOps
    /\ logOps' = logOps + 1
    /\ IF name \in DOMAIN loggers
       THEN UNCHANGED <<loggers, loggerObjs, levelMaps>>
       ELSE /\ Len(loggerObjs) < MaxLoggers + (IF rootLogger # 0 THEN 1 ELSE 0)
            /\ IF rootLogger # 0
               THEN /\ loggerObjs' = Append(loggerObjs,
                            [name |-> name, handlers |-> loggerObjs[rootLogger].handlers,
                             levels |-> loggerObjs[rootLogger].levels])
                    /\ UNCHANGED levelMaps
               ELSE /\ levelMaps' = Append(levelMaps, << >>)
                    /\ loggerObjs' = Append(loggerObjs,
                            [name |-> name, handlers |-> << >>, levels |-> Len(levelMaps) + 1])
            /\ loggers' = With(loggers, name, Len(loggerObjs) + 1)
    /\ UNCHANGED <<rootLogger, initialized, lastlog, nonLogVars>>

\* InitLogger, reading configuration c; pg says how the PostgreSQL handler
\* goes: "none" (GOODOO_LOG_DB unset), "ok", or "fail", where the root logger
\* logs the failure
InitLogger(c, pg) ==
    /\ logOps < MaxLogOps
    /\ ~initialized
    /\ logOps' = logOps + 1
    /\ initialized' = TRUE
    /\ levelMaps' = Append(levelMaps, BuildLoggerLevels(c))
    /\ loggerObjs' = Append(loggerObjs,
            [name |-> RootName,
             handlers |-> IF pg = "ok" THEN <<"stream", "pg">> ELSE <<"stream">>,
             levels |-> Len(levelMaps) + 1])
    /\ rootLogger' = Len(loggerObjs) + 1
    /\ loggers' = With(loggers, RootName, Len(loggerObjs) + 1)
    /\ lastlog' = IF pg = "fail"
                  THEN [op |-> "log", at |-> logOps', logger |-> rootLogger', level |-> "ERROR",
                        sinks |-> IF ShouldLog(BuildLoggerLevels(c), RootName, "ERROR")
                                  THEN <<"stream">> ELSE << >>,
                        failing |-> {}, stderr |-> << >>]
                  ELSE lastlog
    /\ UNCHANGED nonLogVars

\* Logger.SetLevel(level) on the Logger l
SetLevel(l, level) ==
    /\ logOps < MaxLogOps
    /\ l \in 1..Len(loggerObjs)
    /\ logOps' = logOps + 1
    /\ levelMaps' = [levelMaps EXCEPT ![loggerObjs[l].levels] =
                        With(levelMaps[loggerObjs[l].levels], loggerObjs[l].name, level)]
    /\ UNCHANGED <<loggers, loggerObjs, rootLogger, initialized, lastlog, nonLogVars>>

\* the loop of Logger.log over l.handlers from the i-th on: the handlers
\* Emit is called on, and those whose error is written to standard error;
\* Emit fails on the handlers of failing
RECURSIVE EmitFrom(_, _, _)
EmitFrom_aborting(handlers, failing, i) ==
    IF i > Len(handlers) THEN [handed |-> << >>, stderr |-> << >>]
    ELSE IF handlers[i] \in failing
    THEN [handed |-> <<handlers[i]>>, stderr |-> <<handlers[i]>>]
    ELSE LET rest == EmitFrom(handlers, failing, i + 1)
         IN  [handed |-> <<handlers[i]>> \o rest.handed, stderr |-> rest.stderr]
EmitFrom(handlers, failing, i) ==
    IF i > Len(handlers) THEN [handed |-> << >>, stderr |-> << >>]
    ELSE LET rest == EmitFrom(handlers, failing, i + 1)
         IN  [handed |-> <<handlers[i]>> \o rest.handed,
              stderr |-> (IF handlers[i] \in failing THEN <<handlers[i]>> ELSE << >>)
                         \o rest.stderr]

\* Logger.log(level, ...) on the Logger l
Log(l, level, failing) ==
    /\ logOps < MaxLogOps
    /\ l \in 1..Len(loggerObjs)
    /\ logOps' = logOps + 1
    /\ LET e == IF ShouldLog(levelMaps[loggerObjs[l].levels], loggerObjs[l].name, level)
                THEN EmitFrom(loggerObjs[l].handlers, failing, 1)
                ELSE [handed |-> << >>, stderr |-> << >>]
       IN  lastlog' = [op |-> "log", at |-> logOps', logger |-> l, level |-> level,
                       sinks |-> e.handed, failing |-> failing, stderr |-> e.stderr]
    /\ UNCHANGED <<loggers, loggerObjs, levelMaps, rootLogger, initialized, nonLogVars>>

LogNext ==
    \/ \E name \in LoggerNames \cup {RootName} : GetLogger(name)
    \/ \E c \in LogConfigs, pg \in {"none", "ok", "fail"} : InitLogger(c, pg)
    \/ \E l \in 1..(MaxLoggers + 1), level \in LogLevels : SetLevel(l, level)
    \/ \E l \in 1..(MaxLoggers + 1), level \in LogLevels : Log(l, level, {})

\* logging with handlers whose Emit may fail
SinkNext ==
    \/ \E name \in {<<"goodoo">>, RootName} : GetLogger(name)
    \/ \E c \in LogConfigs, pg \in {"none", "ok", "fail"} : InitLogger(c, pg)
    \/ \E l \in 1..(MaxLoggers + 1), level \in LogLevels, failing \in SUBSET HandlerNames :
            Log(l, level, failing)

(***************************************************************************)
(* http: the routes of main, and the end of RequestMiddleware              *)
(***************************************************************************)
\* the routes behind AuthenticationMiddleware(true)
ProtectedRoutes == {"/session/set"}

\* AuthenticationMiddleware(required): the error it returns instead of calling
\* next, or NoError
AuthenticationMiddleware(required, s) ==
    IF required /\ ~IsAuthenticated(s)
    THEN HTTPError(401, <<"Authentication", "required">>)
    ELSE NoError

\* what the handler chain below RequestMiddleware leaves: the session, the
\* error returned, the response written
Served(route, s, err, status, body, handled) ==
    /\ req.pc = "next"
    /\ sess' = s
    /\ req' = [req EXCEPT !.pc = "save", !.route = route, !.err = err, !.status = status,
                          !.body = body, !.handled = handled]
    /\ UNCHANGED <<files, wall, sops, sop, base, apiVars, nonReqVars>>

\* POST /auth/login: AuthHandler.Login; outcome is how the look-up of the
\* user and the password check go
Login(outcome) ==
    /\ req.pc = "next"
    /\ CASE outcome = "ok" ->
            Served("/auth/login", SessionAuthenticate(sess, "d1", "bob", 7), NoError,
                   200, <<"success">>, TRUE)
         [] outcome = "missing" ->
            Served("/auth/login", sess, HTTPError(400, <<"Login", "and", "password", "required">>),
                   0, << >>, TRUE)
         [] OTHER ->
            Served("/auth/login", sess, HTTPError(401, <<"Invalid", "credentials">>),
                   0, << >>, TRUE)

\* the key and the value of a request body, as c.Bind decodes them: a JSON
\* number is a float64
BodyKeys == {"", "k", "login"}
BodyValues == {VFloat(7), VStr("eve")}

\* POST /session/set: AuthenticationMiddleware(true), then
\* SessionHandler.SetSessionData
SetSessionData(key, value) ==
    /\ req.pc = "next"
    /\ LET denied == AuthenticationMiddleware("/session/set" \in ProtectedRoutes, sess)
       IN  IF denied # NoError
           THEN Served("/session/set", sess, denied, 0, << >>, FALSE)
           ELSE IF key = ""
           THEN Served("/session/set", sess, NoError, 400, <<"Key", "is", "required">>, TRUE)
           ELSE Served("/session/set", SessionSet(sess, key, value), NoError, 200,
                       <<"success">>, TRUE)

\* the HTTP status CallMethod, CallModelMethod and CallRecordMethod give a
\* response of the dispatcher
CallStatus(response) ==
    IF response.Success THEN 200
    ELSE IF Contains(response.Error, <<"not", "found">>) THEN 404
    ELSE IF \/ Contains(response.Error, <<"Access", "denied:">>)
            \/ Contains(response.Error, <<"not", "accessible">>) THEN 403
    ELSE 400

\* an API route answers without calling the dispatcher
ApiAnswered(route, status, body) ==
    /\ req.pc = "next"
    /\ req' = [req EXCEPT !.pc = "save", !.route = route, !.status = status, !.body = body,
                          !.handled = TRUE]
    /\ UNCHANGED <<sess, files, wall, sops, sop, base, apiVars, nonReqVars>>

\* the same lines in CallModelMethod and in CallRecordMethod
CallModelMethodStatus(response) ==
    IF response.Success THEN 200
    ELSE IF Contains(response.Error, <<"not", "found">>) THEN 404
    ELSE IF \/ Contains(response.Error, <<"Access", "denied:">>)
            \/ Contains(response.Error, <<"not", "accessible">>) THEN 403
    ELSE 400

CallRecordMethodStatus_accessFirst(response) ==
    IF response.Success THEN 200
    ELSE IF \/ Contains(response.Error, <<"Access", "denied:">>)
            \/ Contains(response.Error, <<"not", "accessible">>) THEN 403
    ELSE IF Contains(response.Error, <<"not", "found">>) THEN 404
    ELSE 400
CallRecordMethodStatus(response) ==
    IF response.Success THEN 200
    ELSE IF Contains(response.Error, <<"not", "found">>) THEN 404
    ELSE IF \/ Contains(response.Error, <<"Access", "denied:">>)
            \/ Contains(response.Error, <<"not", "accessible">>) THEN 403
    ELSE 400

\* the status the handler of a route gives a response
RouteStatus(route, response) ==
    CASE route = "/api/models/:model/:method" -> CallModelMethodStatus(response)
      [] route = "/api/models/:model/:ids/:method" -> CallRecordMethodStatus(response)
      [] OTHER -> CallStatus(response)

\* an API route calls h.registry.ExecuteCall(ctx, call, req) and answers with
\* its response.  No middleware stands before the API routes: they are
\* registered on the Echo instance itself.
ApiDispatched(route, call, handlerErr) ==
    /\ req.pc = "next"
    /\ Dispatch(call, Caller(sess.UserID, sess.Login, {}), handlerErr)
    /\ req' = [req EXCEPT !.pc = "save", !.route = route,
                          !.status = RouteStatus(route, resp'.response),
                          !.body = resp'.response.Error, !.handled = TRUE,
                          !.dispatched = TRUE]
    /\ UNCHANGED <<sess, files, wall, sops, sop, base, nonReqVars>>

\* POST /api/call: APIHandler.CallMethod; bound is whether c.Bind succeeds
CallMethod(bound, call, handlerErr) ==
    IF ~bound THEN ApiAnswered("/api/call", 400, <<"Invalid", "request", "format">>)
    ELSE ApiDispatched("/api/call", call, handlerErr)

\* ANY /api/models/:model/:method: APIHandler.CallModelMethod
CallModelMethod(modelName, methodName, args, handlerErr) ==
    IF modelName = "" \/ methodName = ""
    THEN ApiAnswered("/api/models/:model/:method", 400,
                     <<"Model", "and", "method", "names", "are", "required">>)
    ELSE ApiDispatched("/api/models/:model/:method",
                       [ModelName |-> modelName, Method |-> methodName, IDs |-> 0,
                        Args |-> args], handlerErr)

\* strconv.Atoi(strings.TrimSpace(idStr)) succeeds
IsNumber(idStr) == idStr \in {"1", "2"}

\* the :ids parameter, as strings.Split(idsParam, ",") cuts it; << >> is the
\* empty parameter
IdsParams == {<< >>, <<"x">>, <<"1">>, <<"1", "x">>}

\* ANY /api/models/:model/:ids/:method: APIHandler.CallRecordMethod
CallRecordMethod(modelName, methodName, idsParam, handlerErr) ==
    LET ids == SelectSeq(idsParam, IsNumber)
    IN  IF modelName = "" \/ methodName = "" \/ idsParam = << >>
        THEN ApiAnswered("/api/models/:model/:ids/:method", 400,
                         <<"Model", "name,", "method", "name,", "and", "IDs", "are", "required">>)
        ELSE IF Len(ids) = 0
        THEN ApiAnswered("/api/models/:model/:ids/:method", 400, <<"Invalid", "IDs", "format">>)
        ELSE ApiDispatched("/api/models/:model/:ids/:method",
                           [ModelName |-> modelName, Method |-> methodName, IDs |-> Len(ids),
                            Args |-> << >>], handlerErr)

\* Request.SaveSession(store): whether Save is called
SaveSession(s) == s.IsDirty /\ s.CanSave

\* what RequestMiddleware returns: the handler's error; the error of
\* SaveSession is logged
RequestResult_failing(err, saveErr) ==
    IF saveErr # "nil" THEN HTTPError(500, <<saveErr>>) ELSE err
RequestResult(err, saveErr) == err

\* RequestMiddleware after next(c) has returned: SaveSession, the log of its
\* error, and the return of the handler's error
RequestDone(outcome) ==
    /\ req.pc = "save"
    /\ LET called == SaveSession(sess)
           written == called /\ ~SaveSkips(sess)
       IN  /\ files' = IF written THEN WriteFile(files, sess, wall, outcome) ELSE files
           /\ sess' = IF written THEN SaveFlags(sess, outcome) ELSE sess
           /\ req' = [req EXCEPT !.pc = "done", !.saved = written,
                                 !.saveErr = IF called THEN SaveError(sess, outcome) ELSE "nil",
                                 !.result = RequestResult(req.err,
                                                IF called THEN SaveError(sess, outcome)
                                                ELSE "nil")]
    /\ UNCHANGED <<wall, sops, sop, base, apiVars, nonReqVars>>

\* the next request arrives
NextRequest ==
    /\ req.pc = "done"
    /\ req' = IdleRequest(req.n + 1)
    /\ sess' = NilSession
    /\ UNCHANGED <<files, wall, sops, sop, base, apiVars, nonReqVars>>

ReqNext ==
    \/ \E cookie \in Cookies, nsid \in Sids : initSession(cookie, nsid)
    \/ \E nsid \in Sids : initSessionGet(nsid)
    \/ \E outcome \in {"ok", "missing", "bad"} : Login(outcome)
    \/ \E key \in BodyKeys, value \in BodyValues : SetSessionData(key, value)
    \/ \E outcome \in WriteOutcomes : RequestDone(outcome)
    \/ NextRequest
    \/ \E sid \in Sids : StoreDelete(sid)
    \/ \E failing \in SUBSET Sids : Cleanup(failing)
    \/ TickWall

\* the methods are registered before the server takes its first request
Startup == req.pc = "idle" /\ req.n = 0 /\ req.cookie = ""

\* the registrations made at start-up: methods of the model partner, of the
\* record kind or the model kind, with or without groups
RegisterMethod == Startup /\ NewMethod("partner", "create", TRUE)
RegisterModel(i) == Startup /\ Model(i)
RegisterGroups(i, groups) == Startup /\ Groups(i, groups)

ApiRoutesNext ==
    \/ RegisterMethod
    \/ \E i \in 1..MaxMethods : RegisterModel(i)
    \/ \E i \in 1..MaxMethods, groups \in SUBSET GroupNames : RegisterGroups(i, groups)
    \/ \E cookie \in {""} \cup Sids, nsid \in Sids : initSession(cookie, nsid)
    \/ \E nsid \in Sids : initSessionGet(nsid)
    \/ Login("ok")
    \/ \E bound \in BOOLEAN, call \in APICalls, handlerErr \in HandlerErrors :
            CallMethod(bound, call, handlerErr)
    \/ \E modelName \in ModelNames \cup {""}, args \in {<< >>, <<{}>>}, handlerErr \in HandlerErrors :
            CallModelMethod(modelName, "create", args, handlerErr)
    \/ \E modelName \in ModelNames, idsParam \in IdsParams, handlerErr \in HandlerErrors :
            CallRecordMethod(modelName, "create", idsParam, handlerErr)
    \/ RequestDone("ok")
    \/ NextRequest

(***************************************************************************)
(* database: DatabaseRegistry.  Each operation taken as a whole, one call  *)
(* after the other, with the callers closing the connections they got.     *)
(***************************************************************************)
DbNames == {"main", "aux"}

\* the configs databases are registered with; CfgA and CfgA2 share a pool key
RegConfigs == {CfgA, CfgA2}

\* the maxIdleTime CleanupInactive is called with, in minutes
IdleTimes == {0, IdleMinutes}

NoDbOp == [op |-> "none", name |-> "", err |-> "", conn |-> 0, prev |-> "none"]

\* what a call reports: its name and argument, its error, the connection it
\* returned (0: none), and the call before it
DbOp(op, name, err, conn) ==
    [op |-> op, name |-> name, err |-> err, conn |-> conn, prev |-> dbop.op]

\* NewDatabaseRegistry: no database registered
RegInit ==
    /\ databases = << >>
    /\ dbInfos = << >>
    /\ regOps = 0
    /\ dbop = NoDbOp

\* one more registry call
RegCall ==
    /\ regOps < MaxRegOps
    /\ regOps' = regOps + 1

\* the DatabaseInfo registered under name
InfoOf(name) == dbInfos[databases[name]]

\* &DatabaseInfo{Name, Config: config.Clone(), LastAccessed: time.Now(), Active: false}
NewDatabaseInfo(name, cfg, t) ==
    [Name |-> name, Config |-> cfg, Connection |-> 0, LastAccessed |-> t, Active |-> FALSE]

\* DatabaseRegistry.Register(dbName, config)
RegistryRegister_replacing(name, cfg) ==
    /\ RegCall
    /\ dbInfos' = Append(dbInfos, NewDatabaseInfo(name, cfg, now))
    /\ databases' = With(databases, name, Len(dbInfos) + 1)
    /\ dbop' = DbOp("Register", name, "", 0)
    /\ UNCHANGED <<poolVars, sessVars, apiVars, logVars, reqVars, saveVars, storeVars, perfVars, concVars>>

RegistryRegister(name, cfg) ==
    /\ RegCall
    /\ IF name \in DOMAIN databases
       THEN /\ dbop' = DbOp("Register", name, "already registered", 0)
            /\ UNCHANGED <<databases, dbInfos>>
       ELSE /\ dbInfos' = Append(dbInfos, NewDatabaseInfo(name, cfg, now))
            /\ databases' = With(databases, name, Len(dbInfos) + 1)
            /\ dbop' = DbOp("Register", name, "", 0)
    /\ UNCHANGED <<poolVars, sessVars, apiVars, logVars, reqVars, saveVars, storeVars, perfVars, concVars>>

\* Connection.Ping on wrapper c: the handle is open and the server answers
Ping(c, net) == conns[c].db \notin closedDB /\ net

\* the DatabaseInfo after its connection was closed and dropped
Dropped_flagonly(info) == [info EXCEPT !.Active = FALSE]

Dropped(info) == [info EXCEPT !.Connection = 0, !.Active = FALSE]

\* Connection.Close on the connection a DatabaseInfo holds: pool.Return(c.key)
Released(m, info, t) ==
    IF info.Connection # 0 THEN Return(m, conns[info.Connection].key, t) ELSE m

\* GetConnection from the dbInfo.mutex.Lock() on, for DatabaseInfo number d
ConnectInfo(d, name, net, openOK) ==
    LET info == dbInfos[d]
        live == info.Connection # 0 /\ info.Active
    IN  IF live /\ Ping(info.Connection, net)
        THEN /\ dbInfos' = [dbInfos EXCEPT ![d].LastAccessed = now]
             /\ dbop' = DbOp("GetConnection", name, "", info.Connection)
             /\ UNCHANGED poolVars
        ELSE LET m == IF live THEN Released(connections, info, now) ELSE connections
                 cleaned == IF live THEN Dropped(info) ELSE info
             IN  /\ BorrowFrom(m, info.Config, net, openOK)
                 /\ IF last'.outcome \in {"reused", "created"}
                    THEN /\ dbInfos' = [dbInfos EXCEPT ![d] =
                                [cleaned EXCEPT !.Connection = Len(conns'), !.Active = TRUE,
                                                !.LastAccessed = now]]
                         /\ dbop' = DbOp("GetConnection", name, "", Len(conns'))
                    ELSE /\ dbInfos' = [dbInfos EXCEPT ![d] = cleaned]
                         /\ dbop' = DbOp("GetConnection", name, "failed to get connection", 0)

\* DatabaseRegistry.GetConnection(dbName)
GetConnection(name, net, openOK) ==
    /\ RegCall
    /\ IF name \notin DOMAIN databases
       THEN /\ dbop' = DbOp("GetConnection", name, "not registered", 0)
            /\ UNCHANGED <<dbInfos, poolVars>>
       ELSE ConnectInfo(databases[name], name, net, openOK)
    /\ UNCHANGED <<databases, sessVars, apiVars, logVars, reqVars, saveVars, storeVars, perfVars, concVars>>

\* DatabaseRegistry.CloseDatabase(dbName): the registry and the pool it leaves
CloseDatabaseIn(name) ==
    IF name \notin DOMAIN databases
    THEN /\ dbop' = DbOp("CloseDatabase", name, "not registered", 0)
         /\ UNCHANGED <<dbInfos, connections>>
    ELSE /\ connections' = Released(connections, InfoOf(name), now)
         /\ dbInfos' = [dbInfos EXCEPT ![databases[name]] = Dropped(@)]
         /\ dbop' = DbOp("CloseDatabase", name, "", 0)

\* DatabaseRegistry.CloseDatabase(dbName)
CloseDatabase(name) ==
    /\ RegCall
    /\ CloseDatabaseIn(name)
    /\ UNCHANGED <<databases, maxConns, opened, closedDB, conns, now, calls, last,
                   sessVars, apiVars, logVars, reqVars, saveVars, storeVars, perfVars, concVars>>

\* DatabaseRegistry.Unregister(dbName), no other call running beside it
Unregister(name) ==
    /\ RegCall
    /\ CloseDatabaseIn(name)
    /\ databases' = IF name \in DOMAIN databases THEN Without(databases, {name})
                    ELSE databases
    /\ UNCHANGED <<maxConns, opened, closedDB, conns, now, calls, last,
                   sessVars, apiVars, logVars, reqVars, saveVars, storeVars, perfVars, concVars>>

\* the registered DatabaseInfo objects a sweep closes
RECURSIVE ReleasedAll(_, _, _)
ReleasedAll(m, ds, t) ==
    IF ds = {} THEN m
    ELSE LET d == CHOOSE x \in ds : TRUE
         IN  ReleasedAll(Released(m, dbInfos[d], t), ds \ {d}, t)

\* a sweep over r.databases that closes the DatabaseInfo objects ds
Sweep(ds) ==
    /\ connections' = ReleasedAll(connections, ds, now)
    /\ dbInfos' = [d \in DOMAIN dbInfos |-> IF d \in ds THEN Dropped(dbInfos[d]) ELSE dbInfos[d]]
    /\ UNCHANGED <<databases, maxConns, opened, closedDB, conns, now, calls, last,
                   sessVars, apiVars, logVars, reqVars, saveVars, storeVars, perfVars, concVars>>

RegisteredInfos == {databases[n] : n \in DOMAIN databases}

\* DatabaseRegistry.CleanupInactive(maxIdleTime)
CleanupInactive(maxIdleTime) ==
    /\ RegCall
    /\ Sweep({d \in RegisteredInfos :
                dbInfos[d].Active /\ dbInfos[d].LastAccessed < now - maxIdleTime})
    /\ dbop' = DbOp("CleanupInactive", "", "", 0)

\* DatabaseRegistry.CloseAll
RegistryCloseAll ==
    /\ RegCall
    /\ Sweep(RegisteredInfos)
    /\ dbop' = DbOp("CloseAll", "", "", 0)

RegistryNext ==
    \/ \E name \in DbNames, cfg \in RegConfigs : RegistryRegister(name, cfg)
    \/ \E name \in DbNames, net \in BOOLEAN, openOK \in BOOLEAN : GetConnection(name, net, openOK)
    \/ \E name \in DbNames : CloseDatabase(name)
    \/ \E name \in DbNames : Unregister(name)
    \/ \E maxIdleTime \in IdleTimes : CleanupInactive(maxIdleTime)
    \/ RegistryCloseAll
    \/ \E i \in 1..MaxCalls : Close(i)
    \/ now < MaxRegNow /\ Tick

(***************************************************************************)
(* database: DatabaseRegistry and ConnectionPool under concurrent callers. *)
(* Every operation is a goroutine's walk through its lock acquisitions;    *)
(* the writes of a critical section happen in the step that leaves it.     *)
(***************************************************************************)
Goroutines == {"t1", "t2"}

\* a lock: r.mutex, a DatabaseInfo's mutex, p.mutex, a pooledConnection's mutex
RegLock == <<"registry", 0>>
InfoLock(d) == <<"info", d>>
PoolLock == <<"pool", 0>>
EntryLock(h) == <<"entry", h>>

\* goroutines that hold l for writing or have called Lock() and wait for the
\* readers to leave (sync.RWMutex keeps new readers out meanwhile)
Writers(l) == {x \in locks : x.l = l /\ x.m \in {"w", "pending"}}

Readers(l) == {x \in locks : x.l = l /\ x.m = "r"}

\* RLock() returns
CanRLock(l) == Writers(l) = {}

RLocked(lk, l, t) == lk \cup {[l |-> l, t |-> t, m |-> "r"]}

\* Lock() is called: the writer is announced
CanLock(l) == Writers(l) = {}

Pending(lk, l, t) == lk \cup {[l |-> l, t |-> t, m |-> "pending"]}

\* Lock() returns
CanEnter(l) == Readers(l) = {}

Entered(lk, l, t) == (lk \ {[l |-> l, t |-> t, m |-> "pending"]}) \cup {[l |-> l, t |-> t, m |-> "w"]}

\* sync.Mutex.Lock() returns
CanMutex(l) == Writers(l) = {} /\ Readers(l) = {}

Mutexed(lk, l, t) == lk \cup {[l |-> l, t |-> t, m |-> "w"]}

\* Unlock() and RUnlock()
Unlocked_leaking(lk, l, t) == lk

Unlocked(lk, l, t) == {x \in lk : ~(x.l = l /\ x.t = t)}

IdleGoroutine == [op |-> "", pc |-> "idle", d |-> 0, c |-> 0, key |-> "", ret |-> "done",
                  todo |-> {}, idle |-> 0]

NoneGone == [returned |-> FALSE, late |-> FALSE]

\* a goroutine starts a call
Start(t, op, pc) ==
    /\ thr[t].pc = "idle"
    /\ concOps < MaxConcOps
    /\ concOps' = concOps + 1
    /\ thr' = [thr EXCEPT ![t] = [IdleGoroutine EXCEPT !.op = op, !.pc = pc]]

\* a goroutine goes on inside its call
Goto(t, pc) == thr' = [thr EXCEPT ![t].pc = pc]

\* the call returns
\* (the idle goroutine keeps the name of the call it made last)
Done(t) == thr' = [thr EXCEPT ![t] = [IdleGoroutine EXCEPT !.op = thr[t].op]]

\* the only database name and config of the concurrent callers
TheName == "main"
TheConfig == CfgA
TheKey == getConnectionKey(TheConfig)

ConcInit ==
    /\ thr = [t \in Goroutines |-> IdleGoroutine]
    /\ locks = {}
    /\ concOps = 0
    /\ gone = NoneGone

\* the registry and the pool after NewDatabaseRegistry
FreshRegistry ==
    /\ RegInit
    /\ PoolInit /\ maxConns = DefaultMaxConns

\* the registry and the pool after Register(TheName, TheConfig) and
\* GetConnection(TheName), TickMinutes ago
ConnectedRegistry ==
    /\ databases = (TheName :> 1)
    /\ dbInfos = <<[Name |-> TheName, Config |-> TheConfig, Connection |-> 1,
                    LastAccessed |-> 0, Active |-> TRUE]>>
    /\ regOps = 0
    /\ dbop = NoDbOp
    /\ maxConns = DefaultMaxConns
    /\ connections = (TheKey :> [db |-> 1, config |-> TheConfig, used |-> TRUE, lastUsed |-> 0])
    /\ opened = 1
    /\ closedDB = {}
    /\ conns = <<[db |-> 1, key |-> TheKey, open |-> TRUE]>>
    /\ now = TickMinutes
    /\ calls = 1
    /\ last = BorrowResult("created", TheKey, 1, FALSE, {}, "none")

\* what the registry and the pool do not touch
appVars == <<sessVars, apiVars, logVars, reqVars, saveVars, storeVars, perfVars>>

\* a step that only takes or waits for a lock
NoWrite == UNCHANGED <<databases, dbInfos, regOps, dbop, poolVars, gone, appVars>>

\* a subroutine returns to its caller, or the call returns
Return_to(t, g) ==
    thr' = [thr EXCEPT ![t] = IF g.ret = "done" THEN [IdleGoroutine EXCEPT !.op = g.op]
                              ELSE [g EXCEPT !.pc = g.ret, !.ret = ""]]

\* ---- ConnectionPool.Return(key), as Connection.Close calls it ----
\* p.mutex.RLock() and the map lookup
PoolReturnRLock(t) ==
    /\ thr[t].pc = "ret.rlock"
    /\ CanRLock(PoolLock)
    /\ IF thr[t].key \in DOMAIN connections
       THEN /\ locks' = RLocked(locks, PoolLock, t)
            /\ Goto(t, "ret.entry")
       ELSE /\ UNCHANGED locks
            /\ Return_to(t, thr[t])
    /\ UNCHANGED concOps
    /\ NoWrite

\* pooledConn.mutex.Lock()
PoolReturnEntry(t) ==
    /\ thr[t].pc = "ret.entry"
    /\ CanMutex(EntryLock(connections[thr[t].key].db))
    /\ locks' = Mutexed(locks, EntryLock(connections[thr[t].key].db), t)
    /\ Goto(t, "ret.mark")
    /\ UNCHANGED concOps
    /\ NoWrite

\* used = false, lastUsed = now, and both unlocks
PoolReturnMark(t) ==
    /\ thr[t].pc = "ret.mark"
    /\ connections' = Return(connections, thr[t].key, now)
    /\ locks' = Unlocked(Unlocked(locks, EntryLock(connections[thr[t].key].db), t), PoolLock, t)
    /\ Return_to(t, thr[t])
    /\ UNCHANGED <<concOps, databases, dbInfos, regOps, dbop, gone, appVars,
                   maxConns, opened, closedDB, conns, now, calls, last>>

\* ---- ConnectionPool.Borrow(config) ----
\* Validate, then p.mutex.Lock() is called
PoolBorrowLock(t) ==
    /\ thr[t].pc = "bor.lock"
    /\ Validate(TheConfig) = "ok"
    /\ CanLock(PoolLock)
    /\ locks' = Pending(locks, PoolLock, t)
    /\ Goto(t, "bor.enter")
    /\ UNCHANGED concOps
    /\ NoWrite

\* p.mutex.Lock() returns, and the map lookup
PoolBorrowEnter(t) ==
    /\ thr[t].pc = "bor.enter"
    /\ CanEnter(PoolLock)
    /\ locks' = Entered(locks, PoolLock, t)
    /\ Goto(t, IF TheKey \in DOMAIN connections THEN "bor.entry" ELSE "bor.finish")
    /\ UNCHANGED concOps
    /\ NoWrite

\* pooledConn.mutex.Lock()
PoolBorrowEntry(t) ==
    /\ thr[t].pc = "bor.entry"
    /\ CanMutex(EntryLock(connections[TheKey].db))
    /\ locks' = Mutexed(locks, EntryLock(connections[TheKey].db), t)
    /\ Goto(t, "bor.finish")
    /\ UNCHANGED concOps
    /\ NoWrite

\* the rest of Borrow: reuse or create, the unlocks, and the return
PoolBorrowFinish(t) ==
    /\ thr[t].pc = "bor.finish"
    /\ BorrowFrom(connections, TheConfig, TRUE, TRUE)
    /\ locks' = {x \in locks : ~(x.t = t /\ x.l[1] \in {"pool", "entry"})}
    /\ Return_to(t, [thr[t] EXCEPT !.c = IF last'.outcome \in {"reused", "created"}
                                         THEN Len(conns') ELSE 0])
    /\ UNCHANGED <<concOps, databases, dbInfos, regOps, dbop, gone, appVars>>

\* ---- ConnectionPool.Stats ----
\* p.mutex.RLock()
PoolStatsRLock(t) ==
    /\ thr[t].pc = "ps.rlock"
    /\ CanRLock(PoolLock)
    /\ locks' = RLocked(locks, PoolLock, t)
    /\ thr' = [thr EXCEPT ![t].pc = "ps.next",
                          ![t].todo = {connections[k].db : k \in DOMAIN connections}]
    /\ UNCHANGED concOps
    /\ NoWrite

\* one round of the loop: pooledConn.mutex.Lock()
PoolStatsEntry(t) ==
    /\ thr[t].pc = "ps.next"
    /\ \E h \in thr[t].todo :
        /\ CanMutex(EntryLock(h))
        /\ locks' = Mutexed(locks, EntryLock(h), t)
        /\ thr' = [thr EXCEPT ![t].pc = "ps.count", ![t].d = h]
    /\ UNCHANGED concOps
    /\ NoWrite

\* the entry is counted; pooledConn.mutex.Unlock()
PoolStatsCount(t) ==
    /\ thr[t].pc = "ps.count"
    /\ locks' = Unlocked(locks, EntryLock(thr[t].d), t)
    /\ thr' = [thr EXCEPT ![t].pc = "ps.next", ![t].todo = @ \ {thr[t].d}, ![t].d = 0]
    /\ UNCHANGED concOps
    /\ NoWrite

\* the deferred p.mutex.RUnlock()
PoolStatsReturn(t) ==
    /\ thr[t].pc = "ps.next"
    /\ thr[t].todo = {}
    /\ locks' = Unlocked(locks, PoolLock, t)
    /\ Return_to(t, [thr[t] EXCEPT !.todo = RegisteredInfos])
    /\ UNCHANGED concOps
    /\ NoWrite

\* ---- the pool called directly ----
PoolBorrowCall(t) ==
    /\ Start(t, "Borrow", "bor.lock")
    /\ UNCHANGED locks
    /\ NoWrite

\* Connection.Close by a caller that holds wrapper i
PoolReturnCall(t, i) ==
    /\ i \in DOMAIN conns
    /\ thr[t].pc = "idle"
    /\ concOps < MaxConcOps
    /\ concOps' = concOps + 1
    /\ thr' = [thr EXCEPT ![t] = [IdleGoroutine EXCEPT !.op = "Return", !.pc = "ret.rlock",
                                                      !.key = conns[i].key]]
    /\ UNCHANGED locks
    /\ NoWrite

PoolStatsCall(t) ==
    /\ Start(t, "Stats", "ps.rlock")
    /\ UNCHANGED locks
    /\ NoWrite

\* ConnectionPool.CloseAll(config) and CloseAllConnections: p.mutex.Lock() is called
PoolCloseAllCall(t, op) ==
    /\ Start(t, op, "pc.enter")
    /\ CanLock(PoolLock)
    /\ locks' = Pending(locks, PoolLock, t)
    /\ NoWrite

\* p.mutex.Lock() returns; the entries the call will close
PoolCloseAllEnter(t) ==
    /\ thr[t].pc = "pc.enter"
    /\ CanEnter(PoolLock)
    /\ locks' = Entered(locks, PoolLock, t)
    /\ thr' = [thr EXCEPT ![t].pc = "pc.next",
                ![t].todo = {connections[k].db : k \in
                                IF thr[t].op = "CloseAll" THEN DOMAIN connections \cap {TheKey}
                                ELSE DOMAIN connections}]
    /\ UNCHANGED concOps
    /\ NoWrite

\* one round of the loop: pooledConn.mutex.Lock()
PoolCloseAllEntry(t) ==
    /\ thr[t].pc = "pc.next"
    /\ \E h \in thr[t].todo :
        /\ CanMutex(EntryLock(h))
        /\ locks' = Mutexed(locks, EntryLock(h), t)
        /\ thr' = [thr EXCEPT ![t].pc = "pc.close", ![t].d = h]
    /\ UNCHANGED concOps
    /\ NoWrite

\* the handle is closed, the entry unlocked and deleted from the map
PoolCloseAllClose(t) ==
    LET h == thr[t].d
    IN  /\ thr[t].pc = "pc.close"
        /\ closedDB' = closedDB \cup {h}
        /\ connections' = Without(connections, {k \in DOMAIN connections : connections[k].db = h})
        /\ locks' = Unlocked(locks, EntryLock(h), t)
        /\ thr' = [thr EXCEPT ![t].pc = "pc.next", ![t].todo = @ \ {h}, ![t].d = 0]
        /\ UNCHANGED <<concOps, databases, dbInfos, regOps, dbop, gone, appVars,
                       maxConns, opened, conns, now, calls, last>>

\* the deferred p.mutex.Unlock()
PoolCloseAllReturn(t) ==
    /\ thr[t].pc = "pc.next"
    /\ thr[t].todo = {}
    /\ locks' = Unlocked(locks, PoolLock, t)
    /\ Done(t)
    /\ UNCHANGED concOps
    /\ NoWrite

\* ---- DatabaseRegistry.Register ----
\* r.mutex.Lock() is called
RegisterCall(t) ==
    /\ Start(t, "Register", "rg.body")
    /\ CanLock(RegLock)
    /\ locks' = Pending(locks, RegLock, t)
    /\ NoWrite

\* r.mutex.Lock() returns; the check, the insert, the deferred Unlock
RegisterBody(t) ==
    /\ thr[t].pc = "rg.body"
    /\ CanEnter(RegLock)
    /\ IF TheName \in DOMAIN databases
       THEN UNCHANGED <<databases, dbInfos, gone>>
       ELSE /\ dbInfos' = Append(dbInfos, NewDatabaseInfo(TheName, TheConfig, now))
            /\ databases' = With(databases, TheName, Len(dbInfos) + 1)
            /\ gone' = [gone EXCEPT !.returned = FALSE]
    /\ locks' = Unlocked(locks, RegLock, t)
    /\ Done(t)
    /\ UNCHANGED <<concOps, regOps, dbop, poolVars, appVars>>

\* ---- DatabaseRegistry.GetConnection ----
\* r.mutex.RLock(), the lookup, r.mutex.RUnlock(); an unknown name returns here
GetConnectionCall(t) ==
    /\ thr[t].pc = "idle"
    /\ concOps < MaxConcOps
    /\ concOps' = concOps + 1
    /\ CanRLock(RegLock)
    /\ thr' = IF TheName \in DOMAIN databases
              THEN [thr EXCEPT ![t] = [IdleGoroutine EXCEPT !.op = "GetConnection",
                                            !.pc = "gc.info", !.d = databases[TheName]]]
              ELSE [thr EXCEPT ![t] = [IdleGoroutine EXCEPT !.op = "GetConnection"]]
    /\ UNCHANGED locks
    /\ NoWrite

\* dbInfo.mutex.Lock() is called
GetConnectionInfoLock(t) ==
    /\ thr[t].pc = "gc.info"
    /\ CanLock(InfoLock(thr[t].d))
    /\ locks' = Pending(locks, InfoLock(thr[t].d), t)
    /\ Goto(t, "gc.check")
    /\ UNCHANGED concOps
    /\ NoWrite

\* dbInfo.mutex.Lock() returns; the active connection is pinged and returned,
\* or closed, or there is none
GetConnectionCheck(t) ==
    LET d == thr[t].d
        info == dbInfos[d]
        live == info.Connection # 0 /\ info.Active
    IN  /\ thr[t].pc = "gc.check"
        /\ CanEnter(InfoLock(d))
        /\ IF live /\ Ping(info.Connection, TRUE)
           THEN /\ dbInfos' = [dbInfos EXCEPT ![d].LastAccessed = now]
                /\ gone' = [gone EXCEPT !.late = @ \/ gone.returned]
                /\ locks' = Unlocked(locks, InfoLock(d), t)
                /\ Done(t)
           ELSE /\ locks' = Entered(locks, InfoLock(d), t)
                /\ thr' = [thr EXCEPT ![t] =
                            IF live THEN [@ EXCEPT !.pc = "ret.rlock", !.ret = "gc.dropped",
                                                   !.key = conns[info.Connection].key]
                            ELSE [@ EXCEPT !.pc = "bor.lock", !.ret = "gc.finish"]]
                /\ UNCHANGED <<dbInfos, gone>>
        /\ UNCHANGED <<concOps, databases, regOps, dbop, poolVars, appVars>>

\* the dead connection is dropped; on to Borrow
GetConnectionDropped(t) ==
    /\ thr[t].pc = "gc.dropped"
    /\ dbInfos' = [dbInfos EXCEPT ![thr[t].d] = Dropped(@)]
    /\ thr' = [thr EXCEPT ![t].pc = "bor.lock", ![t].ret = "gc.finish"]
    /\ UNCHANGED <<concOps, locks, databases, regOps, dbop, poolVars, gone, appVars>>

\* Borrow has returned: the connection is recorded, the deferred Unlock, the return
GetConnectionFinish(t) ==
    /\ thr[t].pc = "gc.finish"
    /\ IF thr[t].c # 0
       THEN /\ dbInfos' = [dbInfos EXCEPT ![thr[t].d] =
                    [@ EXCEPT !.Connection = thr[t].c, !.Active = TRUE, !.LastAccessed = now]]
            /\ gone' = [gone EXCEPT !.late = @ \/ gone.returned]
       ELSE UNCHANGED <<dbInfos, gone>>
    /\ locks' = Unlocked(locks, InfoLock(thr[t].d), t)
    /\ Done(t)
    /\ UNCHANGED <<concOps, databases, regOps, dbop, poolVars, appVars>>

\* ---- DatabaseRegistry.CloseDatabase, also as Unregister calls it ----
\* r.mutex.Lock() is called
CloseDatabaseCall(t, op) ==
    /\ Start(t, op, "cd.lookup")
    /\ CanLock(RegLock)
    /\ locks' = Pending(locks, RegLock, t)
    /\ NoWrite

\* r.mutex.Lock() returns, and the lookup; an unknown name returns here
CloseDatabaseLookup(t) ==
    /\ thr[t].pc = "cd.lookup"
    /\ CanEnter(RegLock)
    /\ IF TheName \in DOMAIN databases
       THEN /\ locks' = Entered(locks, RegLock, t)
            /\ thr' = [thr EXCEPT ![t].pc = "cd.info", ![t].d = databases[TheName]]
       ELSE /\ locks' = Unlocked(locks, RegLock, t)
            /\ Done(t)
    /\ UNCHANGED concOps
    /\ NoWrite

\* dbInfo.mutex.Lock() is called
CloseDatabaseInfoLock(t) ==
    /\ thr[t].pc = "cd.info"
    /\ CanLock(InfoLock(thr[t].d))
    /\ locks' = Pending(locks, InfoLock(thr[t].d), t)
    /\ Goto(t, "cd.enter")
    /\ UNCHANGED concOps
    /\ NoWrite

\* dbInfo.mutex.Lock() returns; a connection, if there is one, is closed
CloseDatabaseEnter(t) ==
    LET info == dbInfos[thr[t].d]
    IN  /\ thr[t].pc = "cd.enter"
        /\ CanEnter(InfoLock(thr[t].d))
        /\ locks' = Entered(locks, InfoLock(thr[t].d), t)
        /\ thr' = [thr EXCEPT ![t] =
                    IF info.Connection # 0
                    THEN [@ EXCEPT !.pc = "ret.rlock", !.ret = "cd.drop",
                                   !.key = conns[info.Connection].key]
                    ELSE [@ EXCEPT !.pc = "cd.drop"]]
        /\ UNCHANGED concOps
        /\ NoWrite

\* Connection = nil, Active = false, both deferred Unlocks; CloseDatabase
\* returns, Unregister goes on
CloseDatabaseDrop(t) ==
    /\ thr[t].pc = "cd.drop"
    /\ dbInfos' = [dbInfos EXCEPT ![thr[t].d] = Dropped(@)]
    /\ locks' = Unlocked(Unlocked(locks, InfoLock(thr[t].d), t), RegLock, t)
    /\ IF thr[t].op = "Unregister" THEN Goto(t, "un.lock") ELSE Done(t)
    /\ UNCHANGED <<concOps, databases, regOps, dbop, poolVars, gone, appVars>>

\* ---- DatabaseRegistry.Unregister, after CloseDatabase returned nil ----
\* r.mutex.Lock() is called
UnregisterLock(t) ==
    /\ thr[t].pc = "un.lock"
    /\ CanLock(RegLock)
    /\ locks' = Pending(locks, RegLock, t)
    /\ Goto(t, "un.delete")
    /\ UNCHANGED concOps
    /\ NoWrite

\* r.mutex.Lock() returns; delete(r.databases, dbName), the deferred Unlock
UnregisterDelete(t) ==
    /\ thr[t].pc = "un.delete"
    /\ CanEnter(RegLock)
    /\ databases' = Without(databases, {TheName})
    /\ gone' = [gone EXCEPT !.returned = TRUE]
    /\ locks' = Unlocked(locks, RegLock, t)
    /\ Done(t)
    /\ UNCHANGED <<concOps, dbInfos, regOps, dbop, poolVars, appVars>>

\* ---- DatabaseRegistry.GetDatabaseInfo ----
\* r.mutex.RLock() and the lookup; an unknown name returns here
GetDatabaseInfoCall(t) ==
    /\ thr[t].pc = "idle"
    /\ concOps < MaxConcOps
    /\ concOps' = concOps + 1
    /\ CanRLock(RegLock)
    /\ IF TheName \in DOMAIN databases
       THEN /\ locks' = RLocked(locks, RegLock, t)
            /\ thr' = [thr EXCEPT ![t] = [IdleGoroutine EXCEPT !.op = "GetDatabaseInfo",
                                            !.pc = "gi.copy", !.d = databases[TheName]]]
       ELSE /\ thr' = [thr EXCEPT ![t] = [IdleGoroutine EXCEPT !.op = "GetDatabaseInfo"]]
            /\ UNCHANGED locks
    /\ NoWrite

\* dbInfo.mutex.RLock()
GetDatabaseInfoRLock(t) ==
    /\ thr[t].pc = "gi.copy"
    /\ CanRLock(InfoLock(thr[t].d))
    /\ locks' = RLocked(locks, InfoLock(thr[t].d), t)
    /\ Goto(t, "gi.return")
    /\ UNCHANGED concOps
    /\ NoWrite

\* the copy, and both deferred RUnlocks
GetDatabaseInfoCopy(t) ==
    /\ thr[t].pc = "gi.return"
    /\ locks' = Unlocked(Unlocked(locks, InfoLock(thr[t].d), t), RegLock, t)
    /\ Done(t)
    /\ UNCHANGED concOps
    /\ NoWrite

\* ---- DatabaseRegistry.CleanupInactive and CloseAll ----
\* r.mutex.Lock() is called
SweepCall(t, op, maxIdleTime) ==
    /\ thr[t].pc = "idle"
    /\ concOps < MaxConcOps
    /\ concOps' = concOps + 1
    /\ CanLock(RegLock)
    /\ locks' = Pending(locks, RegLock, t)
    /\ thr' = [thr EXCEPT ![t] = [IdleGoroutine EXCEPT !.op = op, !.pc = "sw.start",
                                                      !.idle = maxIdleTime]]
    /\ NoWrite

\* r.mutex.Lock() returns; the loop over r.databases begins
SweepStart(t) ==
    /\ thr[t].pc = "sw.start"
    /\ CanEnter(RegLock)
    /\ locks' = Entered(locks, RegLock, t)
    /\ thr' = [thr EXCEPT ![t].pc = "sw.next", ![t].todo = RegisteredInfos]
    /\ UNCHANGED concOps
    /\ NoWrite

\* the next round: dbInfo.mutex.Lock() is called
SweepInfoLock(t) ==
    /\ thr[t].pc = "sw.next"
    /\ \E d \in thr[t].todo :
        /\ CanLock(InfoLock(d))
        /\ locks' = Pending(locks, InfoLock(d), t)
        /\ thr' = [thr EXCEPT ![t].pc = "sw.enter", ![t].d = d]
    /\ UNCHANGED concOps
    /\ NoWrite

\* whether the sweep closes this DatabaseInfo
SweepHits(g, info) ==
    IF g.op = "CleanupInactive"
    THEN info.Active /\ info.LastAccessed < now - g.idle
    ELSE TRUE

\* dbInfo.mutex.Lock() returns; a connection to close is closed
SweepEnter(t) ==
    LET info == dbInfos[thr[t].d]
    IN  /\ thr[t].pc = "sw.enter"
        /\ CanEnter(InfoLock(thr[t].d))
        /\ locks' = Entered(locks, InfoLock(thr[t].d), t)
        /\ thr' = [thr EXCEPT ![t] =
                    IF SweepHits(thr[t], info) /\ info.Connection # 0
                    THEN [@ EXCEPT !.pc = "ret.rlock", !.ret = "sw.drop",
                                   !.key = conns[info.Connection].key]
                    ELSE [@ EXCEPT !.pc = "sw.drop"]]
        /\ UNCHANGED concOps
        /\ NoWrite

\* Connection = nil, Active = false where the sweep hits; dbInfo.mutex.Unlock()
SweepDrop(t) ==
    LET d == thr[t].d
    IN  /\ thr[t].pc = "sw.drop"
        /\ dbInfos' = IF SweepHits(thr[t], dbInfos[d])
                      THEN [dbInfos EXCEPT ![d] = Dropped(@)] ELSE dbInfos
        /\ locks' = Unlocked(locks, InfoLock(d), t)
        /\ thr' = [thr EXCEPT ![t].pc = "sw.next", ![t].todo = @ \ {d}]
        /\ UNCHANGED <<concOps, databases, regOps, dbop, poolVars, gone, appVars>>

\* the loop is over: the deferred r.mutex.Unlock()
SweepReturn(t) ==
    /\ thr[t].pc = "sw.next"
    /\ thr[t].todo = {}
    /\ locks' = Unlocked(locks, RegLock, t)
    /\ Done(t)
    /\ UNCHANGED concOps
    /\ NoWrite

\* ---- DatabaseRegistry.Stats ----
\* r.mutex.RLock(); on to r.pool.Stats()
RegistryStatsCall(t) ==
    /\ thr[t].pc = "idle"
    /\ concOps < MaxConcOps
    /\ concOps' = concOps + 1
    /\ CanRLock(RegLock)
    /\ locks' = RLocked(locks, RegLock, t)
    /\ thr' = [thr EXCEPT ![t] = [IdleGoroutine EXCEPT !.op = "RegistryStats",
                                    !.pc = "ps.rlock", !.ret = "rs.infos"]]
    /\ NoWrite

\* one round of the loop: dbInfo.mutex.RLock()
RegistryStatsInfo(t) ==
    /\ thr[t].pc = "rs.infos"
    /\ \E d \in thr[t].todo :
        /\ CanRLock(InfoLock(d))
        /\ locks' = RLocked(locks, InfoLock(d), t)
        /\ thr' = [thr EXCEPT ![t].pc = "rs.count", ![t].d = d]
    /\ UNCHANGED concOps
    /\ NoWrite

\* the database is counted; dbInfo.mutex.RUnlock()
RegistryStatsCount(t) ==
    /\ thr[t].pc = "rs.count"
    /\ locks' = Unlocked(locks, InfoLock(thr[t].d), t)
    /\ thr' = [thr EXCEPT ![t].pc = "rs.infos", ![t].todo = @ \ {thr[t].d}, ![t].d = 0]
    /\ UNCHANGED concOps
    /\ NoWrite

\* the deferred r.mutex.RUnlock()
RegistryStatsReturn(t) ==
    /\ thr[t].pc = "rs.infos"
    /\ thr[t].todo = {}
    /\ locks' = Unlocked(locks, RegLock, t)
    /\ Done(t)
    /\ UNCHANGED concOps
    /\ NoWrite

\* goroutine t calls the registry or the pool
GoroutineCall(t) ==
    \/ RegisterCall(t)
    \/ GetConnectionCall(t)
    \/ \E op \in {"CloseDatabase", "Unregister"} : CloseDatabaseCall(t, op)
    \/ GetDatabaseInfoCall(t)
    \/ \E maxIdleTime \in IdleTimes : SweepCall(t, "CleanupInactive", maxIdleTime)
    \/ SweepCall(t, "RegistryCloseAll", 0)
    \/ RegistryStatsCall(t)
    \/ PoolBorrowCall(t)
    \/ \E i \in 1..MaxCalls : PoolReturnCall(t, i)
    \/ PoolStatsCall(t)
    \/ \E op \in {"CloseAll", "CloseAllConnections"} : PoolCloseAllCall(t, op)

\* goroutine t takes the next step of the call it is in
GoroutineStep(t) ==
    \/ RegisterBody(t)
    \/ GetConnectionInfoLock(t) \/ GetConnectionCheck(t)
    \/ GetConnectionDropped(t) \/ GetConnectionFinish(t)
    \/ CloseDatabaseLookup(t) \/ CloseDatabaseInfoLock(t) \/ CloseDatabaseEnter(t)
    \/ CloseDatabaseDrop(t)
    \/ UnregisterLock(t) \/ UnregisterDelete(t)
    \/ GetDatabaseInfoRLock(t) \/ GetDatabaseInfoCopy(t)
    \/ SweepStart(t) \/ SweepInfoLock(t) \/ SweepEnter(t) \/ SweepDrop(t) \/ SweepReturn(t)
    \/ RegistryStatsInfo(t) \/ RegistryStatsCount(t) \/ RegistryStatsReturn(t)
    \/ PoolCloseAllEnter(t) \/ PoolCloseAllEntry(t) \/ PoolCloseAllClose(t)
    \/ PoolCloseAllReturn(t)
    \/ PoolReturnRLock(t) \/ PoolReturnEntry(t) \/ PoolReturnMark(t)
    \/ PoolBorrowLock(t) \/ PoolBorrowEnter(t) \/ PoolBorrowEntry(t) \/ PoolBorrowFinish(t)
    \/ PoolStatsRLock(t) \/ PoolStatsEntry(t) \/ PoolStatsCount(t) \/ PoolStatsReturn(t)

GoroutinesNext == \E t \in Goroutines : GoroutineCall(t) \/ GoroutineStep(t)

(***************************************************************************)
(* logging: PerfContext, the per-request query counter.  AddQuery and      *)
(* GetMetrics are broken into the steps of their bodies, so that the       *)
(* goroutines sharing one counter interleave.                              *)
(***************************************************************************)
PerfGoroutines == {"g1", "g2", "g3"}

\* time.Since(start) in TrackQuery: a duration on the monotonic clock
Durations == {1, 2}

NoMetrics == [count |-> -1, time |-> -1]

\* &PerfContext{StartTime: time.Now()}: both counters zero, the mutex free
PerfInit ==
    perf = [QueryCount |-> 0, QueryTime |-> 0, mu |-> "",
            pc |-> [g \in PerfGoroutines |-> "idle"],
            dur |-> [g \in PerfGoroutines |-> 0],
            tmp |-> [g \in PerfGoroutines |-> 0],
            started |-> 0, completed |-> 0, reported |-> 0,
            moments |-> {<<0, 0>>}, metrics |-> NoMetrics]

\* pc.mu.Lock() returns only while no goroutine holds the mutex
MuFree_unguarded(p) == TRUE

MuFree(p) == p.mu = ""

\* the counter after a write, with the pair of values it now shows
Shown(p) == [p EXCEPT !.moments = @ \cup {<<p.QueryCount, p.QueryTime>>}]

\* AddQuery: pc.mu.Lock()
AddQueryLock(g, d) ==
    /\ perf.pc[g] = "idle"
    /\ perf.started < MaxQueries
    /\ MuFree(perf)
    /\ perf' = [perf EXCEPT !.mu = g, !.pc[g] = "count", !.dur[g] = d,
                            !.started = @ + 1]
    /\ UNCHANGED nonPerfVars

\* AddQuery: pc.QueryCount++, the read
AddQueryReadCount(g) ==
    /\ perf.pc[g] = "count"
    /\ perf' = [perf EXCEPT !.tmp[g] = perf.QueryCount, !.pc[g] = "countw"]
    /\ UNCHANGED nonPerfVars

\* AddQuery: pc.QueryCount++, the write
AddQueryWriteCount(g) ==
    /\ perf.pc[g] = "countw"
    /\ perf' = Shown([perf EXCEPT !.QueryCount = perf.tmp[g] + 1, !.pc[g] = "time"])
    /\ UNCHANGED nonPerfVars

\* AddQuery: pc.QueryTime += duration, the read
AddQueryReadTime(g) ==
    /\ perf.pc[g] = "time"
    /\ perf' = [perf EXCEPT !.tmp[g] = perf.QueryTime, !.pc[g] = "timew"]
    /\ UNCHANGED nonPerfVars

\* AddQuery: pc.QueryTime += duration, the write
AddQueryWriteTime(g) ==
    /\ perf.pc[g] = "timew"
    /\ perf' = Shown([perf EXCEPT !.QueryTime = perf.tmp[g] + perf.dur[g],
                                  !.pc[g] = "unlock"])
    /\ UNCHANGED nonPerfVars

\* AddQuery: the deferred pc.mu.Unlock(), and the call returns
AddQueryUnlock(g) ==
    /\ perf.pc[g] = "unlock"
    /\ perf' = [perf EXCEPT !.mu = "", !.pc[g] = "idle",
                            !.completed = @ + 1, !.reported = @ + perf.dur[g]]
    /\ UNCHANGED nonPerfVars

\* GetMetrics: pc.mu.Lock()
GetMetricsLock(g) ==
    /\ perf.pc[g] = "idle"
    /\ MuFree(perf)
    /\ perf' = [perf EXCEPT !.mu = g, !.pc[g] = "rcount"]
    /\ UNCHANGED nonPerfVars

\* GetMetrics: the argument pc.QueryCount
GetMetricsReadCount(g) ==
    /\ perf.pc[g] = "rcount"
    /\ perf' = [perf EXCEPT !.tmp[g] = perf.QueryCount, !.pc[g] = "rtime"]
    /\ UNCHANGED nonPerfVars

\* GetMetrics: the argument pc.QueryTime, the deferred Unlock and the return
GetMetricsReturn(g) ==
    /\ perf.pc[g] = "rtime"
    /\ perf' = [perf EXCEPT !.mu = "", !.pc[g] = "idle",
                            !.metrics = [count |-> perf.tmp[g], time |-> perf.QueryTime]]
    /\ UNCHANGED nonPerfVars

PerfNext ==
    \/ \E g \in PerfGoroutines, d \in Durations : AddQueryLock(g, d)
    \/ \E g \in PerfGoroutines : AddQueryReadCount(g)
    \/ \E g \in PerfGoroutines : AddQueryWriteCount(g)
    \/ \E g \in PerfGoroutines : AddQueryReadTime(g)
    \/ \E g \in PerfGoroutines : AddQueryWriteTime(g)
    \/ \E g \in PerfGoroutines : AddQueryUnlock(g)
    \/ \E g \in PerfGoroutines : GetMetricsLock(g)
    \/ \E g \in PerfGoroutines : GetMetricsReadCount(g)
    \/ \E g \in PerfGoroutines : GetMetricsReturn(g)

(***************************************************************************)
(* Specifications: one per subsystem.                                      *)
(***************************************************************************)
InitPool == PoolInit /\ SessInit /\ ApiInit /\ LogInit /\ req = IdleRequest(0)
      /\ saving = SaveIdle(FALSE) /\ renewMissing = TRUE /\ PerfInit /\ RegInit /\ ConcInit

NextPool == PoolNext

SpecPool == InitPool /\ [][NextPool]_vars

InitSession == PoolInit /\ maxConns = DefaultMaxConns /\ SessInit /\ ApiInit /\ LogInit /\ req = IdleRequest(0)
      /\ saving = SaveIdle(FALSE) /\ renewMissing = TRUE /\ PerfInit /\ RegInit /\ ConcInit

NextSession == SessNext

SpecSession == InitSession /\ [][NextSession]_vars

InitApi == PoolInit /\ maxConns = DefaultMaxConns /\ SessInit /\ ApiInit /\ LogInit /\ req = IdleRequest(0)
      /\ saving = SaveIdle(FALSE) /\ renewMissing = TRUE /\ PerfInit /\ RegInit /\ ConcInit

NextApi == ApiNext

SpecApi == InitApi /\ [][NextApi]_vars

InitLog == PoolInit /\ maxConns = DefaultMaxConns /\ SessInit /\ ApiInit /\ LogInit /\ req = IdleRequest(0)
      /\ saving = SaveIdle(FALSE) /\ renewMissing = TRUE /\ PerfInit /\ RegInit /\ ConcInit

NextLog == LogNext

SpecLog == InitLog /\ [][NextLog]_vars

InitRequest == PoolInit /\ maxConns = DefaultMaxConns /\ ReqInit /\ ApiInit /\ LogInit
      /\ saving = SaveIdle(FALSE) /\ renewMissing = TRUE /\ PerfInit /\ RegInit /\ ConcInit

NextReq == ReqNext

SpecRequest == InitRequest /\ [][NextReq]_vars

InitApiRoutes == PoolInit /\ maxConns = DefaultMaxConns /\ ReqInit /\ ApiInit /\ LogInit
      /\ saving = SaveIdle(FALSE) /\ renewMissing = TRUE /\ PerfInit /\ RegInit /\ ConcInit

NextApiRoutes == ApiRoutesNext

SpecApiRoutes == InitApiRoutes /\ [][NextApiRoutes]_vars

InitConcurrent == InitSession

\* a store of either policy: NewFilesystemSessionStore(path, renewMissing)
InitStore == PoolInit /\ maxConns = DefaultMaxConns /\ SessInit /\ ApiInit /\ LogInit
      /\ req = IdleRequest(0) /\ saving = SaveIdle(FALSE) /\ renewMissing \in BOOLEAN /\ PerfInit /\ RegInit /\ ConcInit

NextStore == SessNext

SpecStore == InitStore /\ [][NextStore]_vars

NextConcurrent == ConcurrentNext

InitSinks == InitLog

NextSinks == SinkNext

SpecSinks == InitSinks /\ [][NextSinks]_vars

InitBuilder == InitApi

NextBuilder == BuilderNext

SpecBuilder == InitBuilder /\ [][NextBuilder]_vars

SpecConcurrent == InitConcurrent /\ [][NextConcurrent]_vars

InitRegistry == InitLog

NextRegistry == RegistryNext

SpecRegistry == InitRegistry /\ [][NextRegistry]_vars

\* the callers find the registry fresh, or with the database registered and connected
InitGoroutines ==
    /\ FreshRegistry \/ ConnectedRegistry
    /\ ConcInit
    /\ SessInit /\ ApiInit /\ LogInit /\ req = IdleRequest(0)
    /\ saving = SaveIdle(FALSE) /\ renewMissing = TRUE /\ PerfInit

NextGoroutines == GoroutinesNext

SpecGoroutines == InitGoroutines /\ [][NextGoroutines]_vars

\* the scheduler lets every goroutine that can take a step take one
SpecGoroutinesFair ==
    SpecGoroutines /\ \A t \in Goroutines : WF_vars(GoroutineStep(t))

InitPerf == InitLog

NextPerf == PerfNext

SpecPerf == InitPerf /\ [][NextPerf]_vars

(***************************************************************************)
(* Claims about the connection pool (checked under SpecPool).              *)
(***************************************************************************)
\* the step is a Borrow call that passed Validate
BorrowStep == calls' = calls + 1 /\ last'.outcome # "invalid"

\* C1: no two callers hold the same pooled handle at the same time: a handle
\* returned by one Borrow is not returned by another Borrow before its holder
\* has closed its Connection.
C1_SingleTake ==
    \A i \in DOMAIN conns : \A j \in DOMAIN conns :
        (i # j /\ conns[i].open /\ conns[j].open) => conns[i].db # conns[j].db

\* C2: the pool never holds more than maxConns entries, and a Borrow that
\* reports pool-exhausted has run the idle sweep and left the pool at the cap.
C2_CapAndSweep ==
    /\ [](Cardinality(DOMAIN connections) <= maxConns)
    /\ [][(calls' = calls + 1 /\ last'.outcome = "exhausted")
            => (last'.swept /\ Cardinality(DOMAIN connections') >= maxConns)]_vars

C2_Witness ==
    /\ last.op = "Borrow"
    /\ last.outcome = "exhausted"
    /\ last.swept
    /\ Cardinality(DOMAIN connections) = maxConns

\* the premise of C6: the pool holds maxConns entries and the Borrow is for a
\* key that is not in the pool
C6_AtCapMiss ==
    /\ BorrowStep
    /\ Cardinality(DOMAIN connections) = maxConns
    /\ last'.key \notin DOMAIN connections

C6_OldIdleKeys ==
    {k \in DOMAIN connections :
        ~connections[k].used /\ now - connections[k].lastUsed > IdleMinutes}

\* the sweep of the Borrow step removed exactly the old idle entries and closed
\* their handles
C6_Swept ==
    /\ \A k \in C6_OldIdleKeys : connections[k].db \in closedDB'
    /\ \A k \in DOMAIN connections \ C6_OldIdleKeys :
            k \in DOMAIN connections' /\ connections'[k] = connections[k]
    /\ DOMAIN connections' \subseteq (DOMAIN connections \ C6_OldIdleKeys) \cup {last'.key}

C6_Created ==
    /\ last'.outcome = "created"
    /\ opened' = opened + 1
    /\ last'.db = opened'
    /\ last'.key \in DOMAIN connections'
    /\ connections'[last'.key].db = last'.db
    /\ connections'[last'.key].used

\* C6 as stated: at the cap with every entry busy, a Borrow for a new key fails
\* with pool-exhausted and leaves the pool unchanged; at the cap with an entry
\* idle for more than 30 minutes it evicts the idle entry and succeeds with a
\* newly opened handle.
C6_Original ==
    [][C6_AtCapMiss =>
        /\ (\A k \in DOMAIN connections : connections[k].used)
              => (last'.outcome = "exhausted" /\ connections' = connections
                  /\ closedDB' = closedDB)
        /\ (C6_OldIdleKeys # {}) => (C6_Swept /\ C6_Created)]_vars

\* C6 amended: as C6, but in the second case the Borrow never reports
\* pool-exhausted: it evicts the idle entries and then opens a new handle, so it
\* succeeds when the open succeeds and otherwise returns the open's error with
\* the eviction done and nothing stored under the key.
C6_Amended ==
    [][C6_AtCapMiss =>
        /\ (\A k \in DOMAIN connections : connections[k].used)
              => (last'.outcome = "exhausted" /\ connections' = connections
                  /\ closedDB' = closedDB)
        /\ (C6_OldIdleKeys # {}) =>
              /\ C6_Swept
              /\ \/ C6_Created
                 \/ /\ last'.outcome = "createfail"
                    /\ last'.key \notin DOMAIN connections'
                    /\ opened' = opened]_vars

C6_Witness ==
    /\ last.op = "Borrow"
    /\ last.outcome = "created"
    /\ last.swept
    /\ last.evicted # {}
    /\ Cardinality(DOMAIN connections) = maxConns

\* the scenario of C7: a pool of cap 2, two Borrows have succeeded, no entry has
\* been destroyed
C7_TwoBorrowed == maxConns = 2 /\ Len(conns) = 2 /\ closedDB = {}

\* C7: with cap 2, after two Borrows that are not returned a third Borrow
\* fails with pool-exhausted; once one holder has returned its connection, the
\* next Borrow with that holder's key returns the very same handle, opens
\* nothing and leaves the pool size unchanged.  (Stated for the runs in which
\* the server answers: no failed probe, no failed open.)
C7_ExhaustThenReuse ==
    [][/\ (/\ C7_TwoBorrowed
           /\ conns[1].open
           /\ conns[2].open
           /\ BorrowStep
           /\ last'.outcome # "createfail")
            => last'.outcome = "exhausted"
       /\ \A i \in {1, 2} :
            (/\ C7_TwoBorrowed
             /\ ~conns[i].open
             /\ conns[3 - i].open
             /\ BorrowStep
             /\ last'.key = conns[i].key
             /\ last'.probe # "fail"
             /\ last'.outcome # "createfail")
            => (/\ last'.outcome = "reused"
                /\ last'.db = conns[i].db
                /\ opened' = opened
                /\ Cardinality(DOMAIN connections') = Cardinality(DOMAIN connections))]_vars

\* C8: a Borrow whose pooled entry is idle but fails the liveness probe evicts
\* that entry and returns a newly opened handle stored under the same key, also
\* at the cap: it never fails with pool-exhausted and never returns the dead
\* handle.  (Stated for the runs in which an attempted open succeeds.)
C8_DeadEntryReplaced ==
    [][(BorrowStep /\ last'.probe = "fail" /\ last'.outcome # "createfail") =>
        /\ last'.outcome = "created"
        /\ last'.db = opened + 1
        /\ last'.db # connections[last'.key].db
        /\ last'.key \in DOMAIN connections'
        /\ connections'[last'.key].db = last'.db]_vars

(***************************************************************************)
(* Session claims                                                          *)
(***************************************************************************)
\* C3: in every reachable state of a Session - after any sequence of Set,
\* Delete, Clear, Authenticate, Logout, Touch and UpdateContext, and after a
\* load from the store - IsAuthenticated() is true exactly when the user id
\* is not 0 and the login is not empty.
C3_IsAuthenticatedIff == IsAuthenticated(sess) <=> (sess.UserID # 0 /\ sess.Login # "")

\* an authenticated session that was saved and loaded back from the store
C3_Witness == sop.op = "Get" /\ IsAuthenticated(sess) /\ ~sess.IsNew

\* the value currently stored under key K of session s, and whether there is one
C9_Has(s, K) == K \in {"db_name", "db", "user_id", "uid", "login"} \/ K \in DOMAIN s.Data
C9_Stored(s, K) ==
    CASE K \in {"db_name", "db"} -> VStr(s.DBName)
      [] K \in {"user_id", "uid"} -> VInt(s.UserID)
      [] K = "login" -> VStr(s.Login)
      [] OTHER -> s.Data[K]

\* C9: for every Session.Set(K, V), the special keys db_name/db, user_id/uid
\* and login included: if the value currently stored under K equals V by its
\* canonical JSON, is_dirty is left unchanged; otherwise is_dirty is true
\* after the call.
C9_SetDirtyIffChanged ==
    [][(sops' = sops + 1 /\ sop'.op = "Set") =>
        IF C9_Has(sess, sop'.key) /\ ToJSON(C9_Stored(sess, sop'.key)) = ToJSON(sop'.value)
        THEN sess'.IsDirty = sess.IsDirty
        ELSE sess'.IsDirty]_vars

\* C10: starting from a session whose is_dirty is false (fresh, or just
\* saved), after any sequence of Set, Delete, Clear, Authenticate, Logout,
\* Touch, UpdateContext and Request.UpdateEnvironment, if any persisted field
\* differs from its value at the start, then is_dirty is true.
C10_ChangedImpliesDirty == MarshalSession(sess) # base => sess.IsDirty
\* C17: Save writes nothing and changes no flag when the session is not dirty
\* or has can_save = false; when the session is dirty and can_save it writes
\* the session file and, on success, sets is_dirty = false and is_new = false,
\* while on a write error it returns the error and leaves is_dirty true.
C17_SaveContract ==
    [][\A outcome \in WriteOutcomes :
        StoreSave(outcome) =>
            IF ~sess.IsDirty \/ ~sess.CanSave
            THEN files' = files /\ sess' = sess /\ sop'.err = "nil"
            ELSE /\ outcome = "ok" =>
                        /\ sess.SID \in DOMAIN files'
                        /\ Parses(files'[sess.SID])
                        /\ files'[sess.SID].json = MarshalSession(sess)
                        /\ \A sid \in DOMAIN files' \ {sess.SID} :
                                sid \in DOMAIN files /\ files'[sid] = files[sid]
                        /\ sess' = [sess EXCEPT !.IsDirty = FALSE, !.IsNew = FALSE]
                        /\ sop'.err = "nil"
                 /\ outcome # "ok" =>
                        /\ sop'.err # "nil"
                        /\ sess'.IsDirty
                        /\ sess' = sess]_vars

\* a Save of a dirty session failed at the write and left a truncated file
C17_Witness ==
    /\ sop.op = "Save"
    /\ ~sop.skipped
    /\ sop.outcome = "partial"
    /\ sop.err # "nil"
    /\ sess.IsDirty
    /\ sess.SID \in DOMAIN files
    /\ ~Parses(files[sess.SID])

\* C18: saving a dirty session and then loading it by id from the same store
\* yields a session equal to the saved one in every persisted field (id,
\* creation time, last-access time, database, user id, login, data map,
\* context map, compared as they are persisted), with is_new = false and
\* is_dirty = false.
C18_SaveThenLoad ==
    [][\A sid \in Sids, nsid \in Sids :
        (/\ sop.op = "Save"
         /\ ~sop.skipped
         /\ sop.outcome = "ok"
         /\ sid = sess.SID
         /\ StoreGet(sid, nsid)) =>
            /\ MarshalSession(sess') = MarshalSession(sess)
            /\ ~sess'.IsNew
            /\ ~sess'.IsDirty]_vars

\* C20: when one goroutine mutates a session (Set, Delete, UpdateContext,
\* Authenticate, Logout) while another runs Save on it, the mutation and the
\* Save's reset of is_dirty are ordered under the session's lock: once both
\* are complete, either the written file contains the mutation or is_dirty is
\* true, so no mutation is left unpersisted with is_dirty = false.
C20_NoLostMutation ==
    (saving.pc = "idle" /\ saving.saved /\ ~sess.IsDirty) =>
        /\ sess.SID \in DOMAIN files
        /\ Parses(files[sess.SID])
        /\ files[sess.SID].json = MarshalSession(sess)

\* C21: IsValidKey(sid) is true only if sid has exactly 64 characters and a
\* session file for sid exists; Get(sid) for an id that is invalid, missing,
\* or whose file is malformed returns nil when renew_missing is false and a
\* fresh session with a newly generated id and is_new = true when
\* renew_missing is true, and never a session carrying another id's state.
C21_GetOfBadKey ==
    [][\A sid \in Sids \cup {"short"}, nsid \in Sids :
        StoreGet(sid, nsid) =>
            /\ IsValidKey(sid) => (SidLen(sid) = 64 /\ sid \in DOMAIN files)
            /\ (~IsValidKey(sid) \/ ~Parses(files[sid])) =>
                    IF renewMissing
                    THEN /\ ~sop'.isNil
                         /\ sess' = NewSession(nsid, wall)
                         /\ sess'.IsNew
                         /\ sess'.SID \notin DOMAIN files
                         /\ sess'.SID # sess.SID
                    ELSE sop'.isNil /\ sess' = sess
            /\ (IsValidKey(sid) /\ Parses(files[sid])) =>
                    /\ ~sop'.isNil
                    /\ sess'.SID = sid
                    /\ sess'.SID = files[sid].json["sid"]]_vars

\* a store that does not renew answered nil for an id whose file is
\* malformed
C21_Witness ==
    /\ ~renewMissing
    /\ sop.op = "Get"
    /\ sop.isNil
    /\ sop.sid \in DOMAIN files
    /\ ~Parses(files[sop.sid])

(***************************************************************************)
(* API claims                                                              *)
(***************************************************************************)
\* C4: for every method built with Private(), at any position of the
\* decorator chain, and every caller, authenticated or not, the dispatcher
\* returns success = false with an error containing "not accessible", and
\* does not invoke the handler.
C4_PrivateNotAccessible ==
    [][(apiOps' = apiOps + 1 /\ resp'.op = "ExecuteCall" /\ resp'.at = apiOps'
            /\ resp'.response.method \in privApplied) =>
        /\ resp'.response.Success = FALSE
        /\ Contains(resp'.response.Error, <<"not", "accessible">>)
        /\ invoked' = invoked]_vars

\* an authenticated caller was refused a method on which Model() was called
\* after Private()
C4_Witness ==
    /\ resp.op = "ExecuteCall"
    /\ resp.userID # 0
    /\ resp.response.method \in privApplied
    /\ methods[resp.response.method].Type = "model"
    /\ methods[resp.response.method].HandlerIsFunc
    /\ Contains(resp.response.Error, <<"not", "accessible">>)

\* the method a call resolves to, 0 when the model or the method is not found
C12_Target(call) ==
    IF call.ModelName \in DOMAIN registry /\ call.Method \in DOMAIN registry[call.ModelName]
    THEN registry[call.ModelName][call.Method] ELSE 0

C12_Authenticated(caller) == caller.UserID # 0 /\ caller.Login # ""

\* C12: for every method that declares at least one group, a call from a
\* caller whose session is not authenticated (user id 0 or empty login) fails
\* with an access-denied error and the handler is not invoked.
C12_UnauthenticatedRefused ==
    [][\A call \in APICalls, caller \in Callers, handlerErr \in HandlerErrors :
        (/\ ExecuteCall(call, caller, handlerErr)
         /\ C12_Target(call) # 0
         /\ methods[C12_Target(call)].Groups # {}
         /\ ~C12_Authenticated(caller)) =>
            /\ resp'.response.Success = FALSE
            /\ \/ Contains(resp'.response.Error, <<"Access", "denied:">>)
               \/ Contains(resp'.response.Error, <<"not", "accessible">>)
            /\ invoked' = invoked]_vars

\* C13: a call to a method that declares groups reaches the handler only if
\* the caller is authenticated and belongs to at least one of the declared
\* groups; an authenticated caller that belongs to none of them is refused
\* with an access-denied error.
C13_GroupMembershipRequired ==
    [][\A call \in APICalls, caller \in Callers, handlerErr \in HandlerErrors :
        (/\ ExecuteCall(call, caller, handlerErr)
         /\ C12_Target(call) # 0
         /\ methods[C12_Target(call)].Groups # {}) =>
            /\ invoked' # invoked =>
                    /\ C12_Authenticated(caller)
                    /\ caller.Groups \cap methods[C12_Target(call)].Groups # {}
            /\ (C12_Authenticated(caller)
                    /\ caller.Groups \cap methods[C12_Target(call)].Groups = {}) =>
                    /\ resp'.response.Success = FALSE
                    /\ Contains(resp'.response.Error, <<"Access", "denied:">>)]_vars

\* a create method as the documented example registers it: NewMethod on a
\* model with field definitions, then Model(), a function as the handler
C15_CreateMethod(m) ==
    m.Name = "create" /\ m.Type = "model" /\ m.Public /\ m.HandlerIsFunc /\ m.Model # "nil"

\* C15: for a create method of a model with a required field, registered
\* through the builder as in the documented create example, a call whose
\* mapping argument lacks that field fails with an error that names the field
\* and says "required", and the handler is not invoked.
C15_CreateValidated ==
    [][\A call \in APICalls, caller \in Callers, handlerErr \in HandlerErrors :
        (/\ ExecuteCall(call, caller, handlerErr)
         /\ C12_Target(call) # 0
         /\ C15_CreateMethod(methods[C12_Target(call)])
         /\ checkPermissions(methods[C12_Target(call)], caller) = << >>
         /\ \E k \in 1..Len(call.Args) :
                FieldModels[methods[C12_Target(call)].Model].Required \ call.Args[k] # {}) =>
            /\ resp'.response.Success = FALSE
            /\ Contains(resp'.response.Error, <<"'name'">>)
            /\ Contains(resp'.response.Error, <<"required">>)
            /\ invoked' = invoked]_vars

\* no method the builder makes has the create kind
C15_NoCreateKind == \A i \in 1..Len(methods) : methods[i].Type # "model_create"

(***************************************************************************)
(* API route claims                                                        *)
(***************************************************************************)
\* C14: a POST /api/call without a session cookie, for a method that declares
\* groups, is answered with 401 "Authentication required" by the
\* authentication gate, before the dispatcher: neither the dispatcher's
\* look-up nor the handler runs.
C14_GateBeforeDispatcher ==
    [][\A call \in APICalls, handlerErr \in HandlerErrors :
        (/\ CallMethod(TRUE, call, handlerErr)
         /\ req.cookie = ""
         /\ C12_Target(call) # 0
         /\ methods[C12_Target(call)].Groups # {}) =>
            /\ req'.err.code = 401 \/ req'.status = 401
            /\ \/ req'.err.message = <<"Authentication", "required">>
               \/ req'.body = <<"Authentication", "required">>
            /\ ~req'.dispatched
            /\ resp' = resp
            /\ invoked' = invoked]_vars

\* the method create of the model is of the record kind
C16_RecordKind(modelName) ==
    /\ modelName \in DOMAIN registry
    /\ "create" \in DOMAIN registry[modelName]
    /\ methods[registry[modelName]["create"]].Type = "record"

\* a step that hands the dispatcher a call of create with no ids, through
\* POST /api/call or the URL form without ids
C16_EmptyIdsStep(modelName) ==
    \/ \E call \in APICalls, handlerErr \in HandlerErrors :
            /\ call.ModelName = modelName /\ call.Method = "create" /\ call.IDs = 0
            /\ CallMethod(TRUE, call, handlerErr)
    \/ \E args \in {<< >>, <<{}>>}, handlerErr \in HandlerErrors :
            CallModelMethod(modelName, "create", args, handlerErr)

\* a step of the record URL form whose ids parameter holds no id
C16_UrlEmptyIdsStep(modelName) ==
    \E idsParam \in IdsParams, handlerErr \in HandlerErrors :
        /\ Len(SelectSeq(idsParam, IsNumber)) = 0
        /\ CallRecordMethod(modelName, "create", idsParam, handlerErr)

\* the answer is a failure that names the IDs; the handler has not run
C16_IDsFailure ==
    /\ req'.status >= 400
    /\ Contains(req'.body, <<"IDs">>)
    /\ req'.dispatched => resp'.response.Success = FALSE
    /\ invoked' = invoked

\* the answer is the refusal of the group gate; the handler has not run
C16_GateFailure ==
    /\ req'.status = 403
    /\ Contains(req'.body, <<"Access", "denied:">>)
    /\ ~Contains(req'.body, <<"IDs">>)
    /\ resp'.response.Success = FALSE
    /\ invoked' = invoked

C19_SaveAtEnd ==
    [][\A outcome \in WriteOutcomes :
        RequestDone(outcome) =>
            /\ IF sess.IsDirty /\ sess.CanSave
               THEN /\ files' = WriteFile(files, sess, wall, outcome)
                    /\ outcome = "ok" =>
                            /\ files'[sess.SID].json = MarshalSession(sess)
                            /\ ~sess'.IsDirty
                            /\ req'.saveErr = "nil"
                    /\ outcome # "ok" => req'.saveErr # "nil"
               ELSE files' = files /\ sess' = sess /\ req'.saveErr = "nil"
            /\ req'.result = req.err
            /\ req'.status = req.status
            /\ req'.body = req.body]_vars

\* a login request whose handler answered 200 ended with a failed save and
\* returned no error
C19_Witness ==
    /\ req.pc = "done"
    /\ req.saveErr # "nil"
    /\ req.route = "/auth/login"
    /\ req.status = 200
    /\ req.result = NoError
    /\ sess.IsDirty

(***************************************************************************)
(* Logging claims                                                          *)
(***************************************************************************)
\* the level configured for the longest prefix of N that has an entry, else
\* the entry of the root, else INFO
C5_resolve_level(cfg, N) ==
    LET ps == {i \in 1..Len(N) : SubSeq(N, 1, i) \in DOMAIN cfg}
    IN  IF ps # {} THEN cfg[SubSeq(N, 1, CHOOSE i \in ps : \A j \in ps : j <= i)]
        ELSE IF RootName \in DOMAIN cfg THEN cfg[RootName]
        ELSE "INFO"

\* C5: for every logger name N, every level L and every logger instance
\* obtained for N, whether it was first looked up before or after the logging
\* system was initialised from configuration, a record at level L is handed
\* to the sinks if and only if L >= resolve_level(N) under the configured
\* levels.
C5_EmittedIffAtLeastResolved ==
    [][(logOps' = logOps + 1 /\ initialized /\ lastlog'.op = "log" /\ lastlog'.at = logOps') =>
        LET l == loggerObjs[lastlog'.logger]
            cfg == levelMaps[loggerObjs[rootLogger].levels]
        IN  (lastlog'.sinks # << >>) <=>
                GetLogLevelNumericValue(lastlog'.level)
                    >= GetLogLevelNumericValue(C5_resolve_level(cfg, l.name))]_vars
(***************************************************************************)
(* Request claims                                                          *)
(***************************************************************************)
\* C11: every request is bound to a non-nil session; whenever the request's
\* cookie is absent or does not yield a stored session (wrong length, no
\* file, malformed file, or file removed between the validity check and the
\* load), the bound session is new and the response sets the session cookie
\* to exactly that session's id.
C11_BoundAndCookieSet ==
    req.pc = "next" =>
        /\ ~IsNil(sess)
        /\ ~req.loaded => (sess.IsNew /\ req.setCookie = sess.SID)

(***************************************************************************)
(* Store claims                                                            *)
(***************************************************************************)
\* C22: Delete(sid) removes the session file for sid, and deleting an id that
\* has no file returns no error, so Delete can be repeated without failing.
C22_DeleteIdempotent ==
    [][\A sid \in Sids :
        StoreDelete(sid) => (sid \notin DOMAIN files' /\ sop'.err = "nil")]_vars

\* C23: after Cleanup returns without error, every session file modified more
\* than 24 hours ago has been removed, and every session file modified within
\* the last 24 hours is still present with unchanged content.
C23_CleanupSweeps ==
    [][\A failing \in SUBSET Sids :
        (Cleanup(failing) /\ sop'.err = "nil") =>
            \A sid \in DOMAIN files :
                IF wall - files[sid].modTime > SessionMaxAgeHours
                THEN sid \notin DOMAIN files'
                ELSE sid \in DOMAIN files' /\ files'[sid] = files[sid]]_vars

\* a sweep without error has removed one file and kept a younger one
C23_Witness ==
    /\ sop.op = "Cleanup"
    /\ sop.err = "nil"
    /\ sop.removed # {}
    /\ DOMAIN files # {}

\* C24: a request that arrived without a session cookie leaves, when it
\* completes, one file in the store, named by the 64-character id of the
\* response cookie; a later request presenting that cookie while the file is
\* there is bound to the session of the same id with the saved state; after the
\* sweep has removed the file, a request presenting the stale cookie is bound
\* to a new session with a different id and receives a new cookie.
C24_FirstRequest ==
    (req.cookie = "" /\ RequestDone("ok")) =>
        /\ SidLen(req.setCookie) = 64
        /\ req.setCookie = sess.SID
        /\ DOMAIN files' = DOMAIN files \cup {req.setCookie}
        /\ files'[req.setCookie].json = MarshalSession(sess)

C24_SameSession ==
    \A nsid \in Sids :
        (/\ req.pc = "get"
         /\ req.sid \in DOMAIN files
         /\ Parses(files[req.sid])
         /\ initSessionGet(nsid)) =>
            /\ req'.setCookie = ""
            /\ sess'.SID = req.sid
            /\ ~sess'.IsNew
            /\ LET j == files[req.sid].json
                   m == MarshalSession(sess')
               IN  /\ m["sid"] = j["sid"]
                   /\ m["data"] = j["data"]
                   /\ m["created_at"] = j["created_at"]
                   /\ \A f \in {"db_name", "user_id", "login"} :
                         /\ f \in DOMAIN m <=> f \in DOMAIN j
                         /\ f \in DOMAIN j => m[f] = j[f]
                   /\ \A k \in DOMAIN j["context"] \ DOMAIN RequestContext :
                         m["context"][k] = j["context"][k]

C24_StaleCookie ==
    \A cookie \in Sids, nsid \in Sids :
        (cookie \notin DOMAIN files /\ initSession(cookie, nsid)) =>
            /\ req'.setCookie = nsid
            /\ sess'.SID = nsid
            /\ sess'.IsNew
            /\ nsid # cookie

TripletWhole(s) ==
    \/ s.DBName # "" /\ s.UserID # 0 /\ s.Login # ""
    \/ s.UserID = 0 /\ s.Login = ""

\* C25: after any sequence of Set, Delete, Clear, Authenticate and Logout the
\* authentication triplet is all-or-nothing: database, user id and login are
\* all set or all unset, except that Logout with keep-database leaves the
\* database set while user id and login are cleared.
C25_TripletAllOrNothing ==
    [][(/\ TripletWhole(sess)
        /\ \/ \E key \in SetKeys, value \in SetValues : Set(key, value)
           \/ \E key \in SetKeys : Delete(key)
           \/ Clear
           \/ Authenticate("d1", "bob", 7)
           \/ \E keepDB \in BOOLEAN : Logout(keepDB))
       => TripletWhole(sess')]_vars

(***************************************************************************)
(* API claims: what a response discloses, and its status                   *)
(***************************************************************************)
\* a message with the names the caller sent blanked out
Redact(msg, call) ==
    [i \in DOMAIN msg |->
        IF msg[i] \in {"'" \o call.ModelName \o "'", "'" \o call.Method \o "'"}
        THEN "'_'" ELSE msg[i]]

\* C26: for an unauthenticated caller the response (status and body) to a
\* call naming an existing group-gated or private method is the same as the
\* response to a call naming a method that does not exist, so that refusals do
\* not reveal whether the target method exists.
C26_ExistenceHidden ==
    \A call \in APICalls, other \in APICalls :
        (/\ call.ModelName \in DOMAIN registry
         /\ call.Method \in DOMAIN registry[call.ModelName]
         /\ LET m == methods[registry[call.ModelName][call.Method]]
            IN  ~Accessible(m) \/ Cardinality(m.Groups) > 0
         /\ other.ModelName = call.ModelName
         /\ other.Method \notin DOMAIN registry[call.ModelName]
         /\ other.IDs = call.IDs
         /\ other.Args = call.Args) =>
            LET r == ExecuteCallResponse(call, Caller(0, "", {}), << >>)
                r0 == ExecuteCallResponse(other, Caller(0, "", {}), << >>)
            IN  /\ CallStatus(r) = CallStatus(r0)
                /\ Redact(r.Error, call) = Redact(r0.Error, other)

\* C27: when a handler fails with an unexpected error, the client receives a
\* 500-class status with a generic message, and the handler's own error text
\* is not part of the response body.
C27_InternalErrorHidden ==
    [][\A call \in APICalls, handlerErr \in HandlerErrors \ {<< >>} :
        (/\ CallMethod(TRUE, call, handlerErr)
         /\ resp'.response.called
         /\ ~resp'.response.Success) =>
            /\ req'.status >= 500
            /\ ~Contains(req'.body, handlerErr)]_vars

\* a step in which one of the three entry points answers with the
\* dispatcher's response
C28_Dispatched == req.pc = "next" /\ req'.pc = "save" /\ req'.dispatched

\* the status by the order of the statement: success, then access denied or
\* not accessible, then not found
C28_StatusAsStated(response) ==
    IF response.Success THEN 200
    ELSE IF \/ Contains(response.Error, <<"Access", "denied:">>)
            \/ Contains(response.Error, <<"not", "accessible">>) THEN 403
    ELSE IF Contains(response.Error, <<"not", "found">>) THEN 404
    ELSE 400

\* the status with not found taking precedence
C28_StatusNotFoundFirst(response) ==
    IF response.Success THEN 200
    ELSE IF Contains(response.Error, <<"not", "found">>) THEN 404
    ELSE IF \/ Contains(response.Error, <<"Access", "denied:">>)
            \/ Contains(response.Error, <<"not", "accessible">>) THEN 403
    ELSE 400

\* C28 as stated: the status of a dispatcher response is 200 on success,
\* otherwise 403 when the error text contains "Access denied" or "not
\* accessible", 404 when it contains "not found", 400 in every other case, and
\* the three entry points give a response the same status.
C28_Original ==
    [][C28_Dispatched => req'.status = C28_StatusAsStated(resp'.response)]_vars

\* C28 amended: the status of a dispatcher response is 200 on success,
\* otherwise 404 when the error text contains "not found", otherwise 403 when
\* it contains "Access denied" or "not accessible", 400 in every other case,
\* and the three entry points give a response the same status.
C28_Amended ==
    [][C28_Dispatched => req'.status = C28_StatusNotFoundFirst(resp'.response)]_vars

\* the record URL form has answered a response whose error text contains both
\* "Access denied" and "not found"
C28_Witness ==
    /\ req.dispatched
    /\ req.route = "/api/models/:model/:ids/:method"
    /\ resp.op = "ExecuteCall"
    /\ Contains(resp.response.Error, <<"Access", "denied:">>)
    /\ Contains(resp.response.Error, <<"not", "found">>)
    /\ req.status = 404

(***************************************************************************)
(* Builder claims                                                          *)
(***************************************************************************)
\* the dispatcher resolves modelName.methodName
C29_Resolvable(modelName, methodName) ==
    ~Contains(ExecuteCallResponse([ModelName |-> modelName, Method |-> methodName,
                                   IDs |-> 1, Args |-> << >>],
                                  Caller(7, "bob", {}), << >>).Error,
              <<"not", "found">>)

\* C29: a method is not resolvable by the dispatcher and not listed by
\* introspection until Register() has been called on its builder, and what
\* Register() commits is the method as decorated at that moment.
C29_RegisterCommits ==
    \A modelName \in ModelNames, methodName \in MethodNames :
        (C29_Resolvable(modelName, methodName) \/ methodName \in GetPublicMethods(modelName)) =>
            LET id == registry[modelName][methodName]
            IN  /\ id \in DOMAIN committed
                /\ methods[id] = committed[id]

\* the decorator call name(arg) on the builder of methods[i]
C30_Decorate(i, name, arg) ==
    CASE name = "Model" -> Model(i)
      [] name = "Constrains" -> Constrains(i, arg)
      [] name = "Depends" -> Depends(i, arg)
      [] name = "OnChange" -> OnChange(i, arg)
      [] name = "Returns" -> Returns(i, arg)
      [] name = "Groups" -> Groups(i, arg)
      [] name = "Help" -> Help(i, arg)

\* C30: for the decorators that set independent fields (Model, Constrains,
\* Depends, OnChange, Returns, Groups, Help) a decorator call and a call of
\* another of them give the same registered APIMethod in either order, and
\* each decorator is idempotent: applied twice with the same arguments it
\* gives the APIMethod it gives applied once.
C30_DecoratorsCommute ==
    [][\A i \in 1..MaxMethods, n1 \in DecoratorNames :
        \A a1 \in DecoratorArgs(n1) :
            C30_Decorate(i, n1, a1) =>
                /\ Decorated(methods'[i], n1, a1) = methods'[i]
                /\ registry' = registry
                /\ \A n2 \in DecoratorNames \ {n1} :
                      \A a2 \in DecoratorArgs(n2) :
                          Decorated(methods'[i], n2, a2)
                              = Decorated(Decorated(methods[i], n2, a2), n1, a1)]_vars

\* a method built by NewMethod, Model(), Constrains("a") and Help("help")
C30_Witness ==
    /\ Len(methods) = 1
    /\ apiOps = 4
    /\ methods[1].Type = "model"
    /\ methods[1].Constrains = <<"a">>
    /\ methods[1].Help = "help"

(***************************************************************************)
(* Pool claims: Close and the handles opened                               *)
(***************************************************************************)
\* the entry wrapper i was borrowed from has been destroyed (its handle is
\* closed) and the entry now under its key is held by the caller of another
\* Borrow: it is busy with the handle of an open wrapper j that is not i's
C35_HeldByAnother(i) ==
    /\ conns[i].db \in closedDB
    /\ conns[i].key \in DOMAIN connections
    /\ connections[conns[i].key].used
    /\ connections[conns[i].key].db # conns[i].db
    /\ \E j \in DOMAIN conns :
          /\ j # i
          /\ conns[j].open
          /\ conns[j].key = conns[i].key
          /\ conns[j].db = connections[conns[i].key].db

\* C35: Connection.Close releases only the borrow that produced that
\* Connection: a Close on a Connection whose pool entry has been destroyed and
\* re-created under the same key never clears the busy flag of an entry that
\* is held by another caller.
C35_CloseOwnBorrowOnly ==
    [][\A i \in 1..MaxCalls :
        (i \in DOMAIN conns /\ C35_HeldByAnother(i) /\ Close(i)) =>
            connections'[conns[i].key].used]_vars

\* the handles the pool has opened and not closed
C38_OpenHandles == (1..opened) \ closedDB

\* C38: every database handle the pool has opened is recorded in the pool's
\* map or has been closed (Borrow never replaces the entry under a key without
\* closing the handle it replaces), so the number of open handles never
\* exceeds the cap.
C38_NoLeakedHandle ==
    /\ \A h \in C38_OpenHandles : \E k \in DOMAIN connections : connections[k].db = h
    /\ Cardinality(C38_OpenHandles) <= maxConns

(***************************************************************************)
(* Request claims: the identity of a session                               *)
(***************************************************************************)
\* C40: over HTTP the login and user id of a session change only by a
\* successful POST /auth/login, a logout or a session clear: POST /session/set
\* with the key login, user_id or uid never changes the identity the session
\* is authenticated as.
C40_SetKeepsIdentity ==
    [][\A key \in BodyKeys, value \in BodyValues :
        (req.pc = "next" /\ SetSessionData(key, value)) =>
            /\ sess'.Login = sess.Login
            /\ sess'.UserID = sess.UserID]_vars

(***************************************************************************)
(* Logging claims: sinks                                                   *)
(***************************************************************************)
\* C33: a record that passes the level check is handed to every sink of the
\* logger in registration order; an error returned by one sink does not keep
\* the record from the sinks registered after it, and goes to standard error,
\* never to the code that logged.
C33_AllSinksServed ==
    [][(/\ logOps' = logOps + 1
        /\ lastlog'.op = "log"
        /\ lastlog'.at = logOps'
        /\ LET l == loggerObjs'[lastlog'.logger]
           IN  ShouldLog(levelMaps'[l.levels], l.name, lastlog'.level)) =>
            LET l == loggerObjs'[lastlog'.logger]
            IN  /\ lastlog'.sinks = l.handlers
                /\ lastlog'.stderr = SelectSeq(l.handlers, LAMBDA h : h \in lastlog'.failing)]_vars

\* the first of two sinks failed and the second was handed the record
C33_Witness ==
    /\ lastlog.op = "log"
    /\ lastlog.sinks = <<"stream", "pg">>
    /\ lastlog.stderr = <<"stream">>

(***************************************************************************)
(* Claims about the query counter (checked under SpecPerf).                *)
(***************************************************************************)
\* no step lowers the query count or the accumulated query duration
C34_NeverDecreases ==
    /\ perf'.QueryCount >= perf.QueryCount
    /\ perf'.QueryTime >= perf.QueryTime

\* while no AddQuery is in progress the count is the number of completed
\* calls and the duration is the sum of the durations they reported
C34_NoLostUpdate ==
    (\A g \in PerfGoroutines : perf.pc[g] = "idle") =>
        /\ perf.QueryCount = perf.completed
        /\ perf.QueryTime = perf.reported

\* a metrics read returns a pair the counter showed at one moment
C34_OneMoment ==
    perf.metrics # NoMetrics => <<perf.metrics.count, perf.metrics.time>> \in perf.moments

\* C34: for a counter shared by concurrent goroutines, count and duration
\* never decrease; once n AddQuery calls have completed, in any interleaving,
\* the count is n and the duration is the sum of the reported durations; and
\* every metrics read returns a count and a duration that were both current
\* at one single moment.
C34_CounterAtomic ==
    /\ [](C34_NoLostUpdate /\ C34_OneMoment)
    /\ [][C34_NeverDecreases]_vars

\* three completed AddQuery calls, a read taken between the second and the third
C34_Witness ==
    /\ perf.completed = 3
    /\ perf.QueryCount = 3
    /\ perf.metrics.count = 2
    /\ perf.metrics.time < perf.QueryTime
    /\ \A g \in PerfGoroutines : perf.pc[g] = "idle"

(***************************************************************************)
(* Claims about the database registry (checked under SpecRegistry).        *)
(***************************************************************************)
\* a Register call on a registered name reports the error and leaves the
\* map and every DatabaseInfo as they were
C31_RegisterExisting ==
    \A name \in DbNames, cfg \in RegConfigs :
        (RegistryRegister(name, cfg) /\ name \in DOMAIN databases) =>
            /\ dbop'.err = "already registered"
            /\ databases' = databases
            /\ dbInfos' = dbInfos

\* every registered name has one DatabaseInfo, which carries that name and
\* belongs to no other name
C31_OneRegistration ==
    /\ DOMAIN databases \subseteq DbNames
    /\ \A n \in DOMAIN databases :
        /\ databases[n] \in DOMAIN dbInfos
        /\ InfoOf(n).Name = n
        /\ \A o \in DOMAIN databases : databases[o] = databases[n] => o = n

\* C31: Register on a name that is already registered returns an error and
\* leaves the existing registration (config, active flag, connection)
\* unchanged; after any sequence of Register, GetConnection, CloseDatabase,
\* Unregister and CleanupInactive each name has at most one registration.
C31_RegisterOnce ==
    /\ [][C31_RegisterExisting]_vars
    /\ []C31_OneRegistration

\* a second Register on a name whose registration holds an active connection
C31_Witness ==
    /\ dbop.op = "Register"
    /\ dbop.err = "already registered"
    /\ dbop.name \in DOMAIN databases
    /\ InfoOf(dbop.name).Active
    /\ InfoOf(dbop.name).Connection # 0

\* CloseDatabase on a registered name leaves the registration and its config,
\* clears the connection and the active flag, and leaves the pool entry of the
\* dropped connection idle
C32_CloseRegistered ==
    \A name \in DOMAIN databases :
        CloseDatabase(name) =>
            LET d == databases[name]
                c == dbInfos[d].Connection
            IN  /\ dbop'.err = ""
                /\ databases' = databases
                /\ dbInfos'[d] = [dbInfos[d] EXCEPT !.Connection = 0, !.Active = FALSE]
                /\ \A o \in DOMAIN dbInfos : o # d => dbInfos'[o] = dbInfos[o]
                /\ (c # 0 /\ conns[c].key \in DOMAIN connections') =>
                        ~connections'[conns[c].key].used

\* CloseDatabase on an unregistered name reports the error and changes nothing
C32_CloseUnregistered ==
    \A name \in DbNames \ DOMAIN databases :
        CloseDatabase(name) =>
            /\ dbop'.err = "not registered"
            /\ UNCHANGED <<databases, dbInfos, poolVars>>

\* GetConnection on a name whose handle was dropped goes to the pool, and
\* returns a connection whenever the pool serves the Borrow
C32_BorrowsAgain ==
    \A name \in DOMAIN databases, net \in BOOLEAN, openOK \in BOOLEAN :
        (GetConnection(name, net, openOK) /\ ~InfoOf(name).Active) =>
            /\ last'.op = "Borrow"
            /\ calls' = calls + 1
            /\ dbop'.err # "not registered"
            /\ (dbop'.err = "") = (last'.outcome \in {"reused", "created"})
            /\ openOK => dbop'.err = ""
            /\ dbop'.err = "" =>
                /\ dbop'.conn = Len(conns')
                /\ dbInfos'[databases[name]].Active
                /\ dbInfos'[databases[name]].Connection = dbop'.conn
                /\ connections'[conns'[dbop'.conn].key].used

C36_ActiveIsBusy ==
    \A n \in DOMAIN databases :
        LET c == InfoOf(n).Connection
        IN  (InfoOf(n).Active /\ c # 0) =>
                /\ conns[c].key \in DOMAIN connections
                /\ connections[conns[c].key].db = conns[c].db
                /\ connections[conns[c].key].used

(***************************************************************************)
(* Claims about the registry and the pool under concurrent callers         *)
(* (checked under SpecGoroutines).                                         *)
(***************************************************************************)
\* the pool entry of a DatabaseInfo's connection is still marked busy
C37_StillBusy(info) ==
    /\ info.Connection # 0
    /\ conns[info.Connection].key \in DOMAIN connections
    /\ connections[conns[info.Connection].key].db = conns[info.Connection].db
    /\ connections[conns[info.Connection].key].used

\* C37: Unregister(name) is atomic with respect to a concurrent
\* GetConnection(name): once Unregister has returned (and until the name is
\* registered again) the name is not registered, no connection borrowed for
\* that name is still marked busy in the pool, and no GetConnection(name)
\* that completes afterwards returns a connection.
C37_UnregisterAtomic ==
    gone.returned =>
        /\ TheName \notin DOMAIN databases
        /\ \A d \in DOMAIN dbInfos : dbInfos[d].Name = TheName => ~C37_StillBusy(dbInfos[d])
        /\ ~gone.late

\* the place of a lock in the order: registry, per-database, pool, per-entry
C39_Rank(l) ==
    CASE l[1] = "registry" -> 1
      [] l[1] = "info" -> 2
      [] l[1] = "pool" -> 3
      [] l[1] = "entry" -> 4

\* a goroutine that asks for a lock holds only locks that come before it
C39_InOrder ==
    \A x \in locks' \ locks :
        \A y \in locks : (y.t = x.t /\ y.l # x.l) => C39_Rank(y.l) < C39_Rank(x.l)

\* C39: no interleaving of registry operations (Register, GetConnection,
\* CloseDatabase, Unregister, CleanupInactive, CloseAll, Stats,
\* GetDatabaseInfo) with pool operations (Borrow, Return, CloseAll,
\* CloseAllConnections, Stats) deadlocks: locks are only ever acquired in the
\* order registry lock, per-database lock, pool lock, per-entry lock, and
\* under fair scheduling every operation eventually returns.
C39_NoDeadlock ==
    /\ [][C39_InOrder]_vars
    /\ \A t \in Goroutines : (thr[t].pc # "idle") ~> (thr[t].pc = "idle")

\* one goroutine waits for the registry lock while the other, holding it and
\* a database's lock, waits for an entry of the pool
C39_Witness ==
    \E t, u \in Goroutines :
        /\ [l |-> RegLock, t |-> t, m |-> "w"] \in locks
        /\ [l |-> PoolLock, t |-> t, m |-> "r"] \in locks
        /\ \E x \in locks : x.t = t /\ x.l[1] = "info" /\ x.m = "w"
        /\ \E x \in locks : x.t = t /\ x.l[1] = "entry"
        /\ u # t /\ thr[u].pc # "idle"

====
